---- MODULE Spec2Model ----
(***************************************************************************)
(* Omzet-Trendanalyse: the ingest -> classify -> detect pipeline of the    *)
(* revenue dashboard (utils.ts, App.tsx).                                  *)
(*                                                                         *)
(* Conventions of the model                                                *)
(*   - a JS string is a tuple of one-character strings, so that            *)
(*     toLowerCase, trim, includes and split are computed, not assumed;    *)
(*   - a Date is its day number (days since 1970-01-01) or NaN for an      *)
(*     Invalid Date; times of day are not modelled;                        *)
(*   - an amount of the App is an integer number of hundredths, NaN is     *)
(*     kept apart as AmtNaN until the normalizer replaces it by 0;         *)
(*   - statistics are exact (rational) arithmetic: a z-score is carried as *)
(*     a fraction under a square root and compared by squaring;            *)
(*   - window.alert is the variable alertMsg; the FileReader loads in      *)
(*     flight are the set pending, each with the state its handler closed  *)
(*     over when the upload was started.                                   *)
(***************************************************************************)
EXTENDS Integers, Sequences, FiniteSets, Bags, TLC

VARIABLES
  rawData,         \* App state: the stored (classified) records
  unmatchedItems,  \* App state: the stored unmatched list
  lookupRules,     \* App state: the active rule list
  pending,         \* FileReader loads started and not yet completed
  alertMsg,        \* the message the last handler passed to window.alert, "" if none
  normData,        \* history: the normalized records rawData was classified from
  usedRules,       \* history: the rule list rawData was classified with
  lastUpload,      \* history: the normalized records of the upload stored last
  engine,          \* the Date parser of the host ("strict" or "legacy")
  language,        \* App state: the language of the interface
  fin,             \* input of the pure function (function specifications)
  fout,            \* its output
  fpc,             \* position of the function specifications
  aiInsights,      \* App state: the stored insight of each category
  isLoadingAI,     \* App state: the loading flag of the insight panel
  selectedRevenueTypes, \* App state: the categories selected in the filter
  runs,            \* the runAIAnalysis calls whose requests are not all answered
  API_KEY,         \* the key the build took from the environment, '' if none
  service,         \* the host: how the insight service answers each category
  dateRange,       \* App state: the selected period
  customStart,     \* App state: the start of the custom period, '' if none
  customEnd,       \* App state: the end of the custom period, '' if none
  anomalies,       \* App state: the anomalies shown
  seenData,        \* React: the filteredData the anomaly effect last ran with
  now              \* the host: the civil date new Date() gives

aiVars == <<aiInsights, isLoadingAI, selectedRevenueTypes, runs, API_KEY, service>>

vars == <<rawData, unmatchedItems, lookupRules, pending, alertMsg,
          normData, usedRules, lastUpload, engine, language, fin, fout, fpc,
          aiVars, dateRange, customStart, customEnd, anomalies, seenData, now>>

viewVars == <<dateRange, customStart, customEnd, anomalies, seenData, now>>

appVars == <<rawData, unmatchedItems, lookupRules, pending, alertMsg,
             normData, usedRules, lastUpload, engine, language, aiVars,
             viewVars>>

funVars == <<fin, fout, fpc>>

\* the insight state of a freshly mounted App, no key and no service
AiIdle ==
  /\ aiInsights = <<>> /\ isLoadingAI = FALSE /\ selectedRevenueTypes = <<>>
  /\ runs = <<>> /\ API_KEY = <<>> /\ service = <<>>
  /\ dateRange = "6M" /\ customStart = <<>> /\ customEnd = <<>>
  /\ anomalies = <<>> /\ seenData = <<>>
  /\ now = [y |-> 2024, m |-> 9, d |-> 30]

(***************************************************************************)
(* Strings                                                                 *)
(***************************************************************************)
Upper == <<"A","B","C","D","E","F","G","H","I","J","K","L","M",
           "N","O","P","Q","R","S","T","U","V","W","X","Y","Z">>

Lower == <<"a","b","c","d","e","f","g","h","i","j","k","l","m",
           "n","o","p","q","r","s","t","u","v","w","x","y","z">>

\* String.prototype.toLowerCase, one character
LowerOf == [c \in {Upper[i] : i \in 1..26} |->
              Lower[CHOOSE i \in 1..26 : Upper[i] = c]]

LowerChar(c) == IF c \in DOMAIN LowerOf THEN LowerOf[c] ELSE c

\* String.prototype.toLowerCase
toLowerCase(s) == [i \in 1..Len(s) |-> LowerChar(s[i])]

\* String.prototype.includes
includes(s, t) ==
  \/ t = <<>>
  \/ \E i \in 1..(Len(s) - Len(t) + 1) :
       s[i] = t[1] /\ \A j \in 2..Len(t) : s[i + j - 1] = t[j]

\* String.prototype.indexOf (0-based, -1 when absent)
indexOf(s, t) ==
  IF ~includes(s, t) THEN -1
  ELSE CHOOSE i \in 0..(Len(s) - Len(t)) :
         /\ \A j \in 1..Len(t) : s[i + j] = t[j]
         /\ \A k \in 0..(i - 1) : \E j \in 1..Len(t) : s[k + j] # t[j]

\* String.prototype.lastIndexOf for a single character (0-based, -1 when absent)
lastIndexOf(s, c) ==
  LET hits == {i \in 1..Len(s) : s[i] = c}
  IN IF hits = {} THEN -1
     ELSE (CHOOSE i \in hits : \A k \in hits : i >= k) - 1

\* String.prototype.trim (the only white space of the model is the blank)
trim(s) ==
  LET keep == {i \in 1..Len(s) : s[i] # " "}
  IN IF keep = {} THEN <<>>
     ELSE LET lo == CHOOSE i \in keep : \A k \in keep : i <= k
              hi == CHOOSE i \in keep : \A k \in keep : i >= k
          IN SubSeq(s, lo, hi)

\* sequences over S of length 0..n
SeqUpTo(S, n) == UNION {[1..k -> S] : k \in 0..n}

(***************************************************************************)
(* Classification (utils.ts)                                               *)
(***************************************************************************)
\* the value of an optional field that is not set
Absent == <<"undefined">>

Unknown == <<"O","n","b","e","k","e","n","d">>  \* 'Onbekend'

Unclassified == <<"N","i","e","t"," ","g","e","c","l","a","s","s","i","f","i","c","e","e","r","d">>  \* 'Niet geclassificeerd'

textToSearchWithType(record) ==
  toLowerCase(record.description \o <<" ">> \o record.originalCategory
              \o <<" ">> \o record.revenueType)

\* `${record.description || ''} ${record.originalCategory || ''}`.toLowerCase()
textToSearch(record) ==
  toLowerCase((IF record.description = Absent THEN <<>> ELSE record.description)
              \o <<" ">> \o
              (IF record.originalCategory = Absent THEN <<>> ELSE record.originalCategory))

\* rules.find(rule => textToSearch.includes(rule.searchTerm.toLowerCase())),
\* the scan from position i on: 0 when undefined, else the position of the rule
RECURSIVE findFrom(_, _, _)
findFrom(hay, rules, i) ==
  IF i > Len(rules) THEN 0
  ELSE IF includes(hay, toLowerCase(rules[i].searchTerm)) THEN i
  ELSE findFrom(hay, rules, i + 1)

RECURSIVE findLastFrom(_, _, _)
findLastFrom(hay, rules, i) ==
  IF i < 1 THEN 0
  ELSE IF includes(hay, toLowerCase(rules[i].searchTerm)) THEN i
  ELSE findLastFrom(hay, rules, i - 1)

findRuleLast(record, rules) == findLastFrom(textToSearch(record), rules, Len(rules))

\* const match = rules.find(...)
findRule(record, rules) == findFrom(textToSearch(record), rules, 1)

classifyOneKeepSeed(record, rules, m) ==
  IF m # 0
    THEN [record EXCEPT !.revenueType = rules[m].mainCategory,
                        !.subCategory = rules[m].subCategory]
    ELSE record

\* the record pushed, with the original category overwritten as well
classifyOneOverwriteOriginal(record, rules, m) ==
  IF m # 0
    THEN [record EXCEPT !.revenueType = rules[m].mainCategory,
                        !.subCategory = rules[m].subCategory,
                        !.originalCategory = rules[m].mainCategory]
    ELSE [record EXCEPT !.revenueType = Unknown,
                        !.subCategory = Unclassified]

\* the record pushed for one input record, m being the rule found (0: none)
classifyOne(record, rules, m) ==
  IF m # 0
    THEN [record EXCEPT !.revenueType = rules[m].mainCategory,
                        !.subCategory = rules[m].subCategory]
    ELSE [record EXCEPT !.revenueType = Unknown,
                        !.subCategory = Unclassified]

\* what the else branch adds to the Set: zero or one string
unmatchedOf(record, m) ==
  IF m # 0 THEN <<>>
  ELSE IF record.description # <<>> /\ record.description # Absent
    THEN <<record.description>>
  ELSE IF record.originalCategory # <<>> /\ record.originalCategory # Absent
    THEN <<record.originalCategory>>
  ELSE <<>>

\* an Array.prototype.push in place of the Set.prototype.add
addToRepeated(acc, items) == IF items = <<>> THEN acc ELSE Append(acc, items[1])

\* Set.prototype.add of zero or one string, in insertion order
addTo(acc, items) ==
  IF items = <<>> \/ \E i \in 1..Len(acc) : acc[i] = items[1] THEN acc
  ELSE Append(acc, items[1])

\* the Set after records i.. have been visited
RECURSIVE collectUnmatched(_, _, _, _)
collectUnmatched(acc, records, found, i) ==
  IF i > Len(records) THEN acc
  ELSE collectUnmatched(addTo(acc, unmatchedOf(records[i], found[i])),
                        records, found, i + 1)

applyLookupRules(records, rules) ==
  LET found == [i \in 1..Len(records) |-> findRule(records[i], rules)]
  IN [processedRecords |->
        [i \in 1..Len(records) |-> classifyOne(records[i], rules, found[i])],
      unmatchedItems |-> collectUnmatched(<<>>, records, found, 1)]

(***************************************************************************)
(* Anomaly detection (utils.ts, detectAnomalies)                           *)
(*                                                                         *)
(* Arithmetic is exact. With n = values.length and sum the sum of values:  *)
(*   mean     = sum / n                                                    *)
(*   variance = (varNum / n^2) / varDen, varNum = SUM (n * val - sum)^2,   *)
(*              varDen = n          ((val - mean)^2 = (n*val - sum)^2/n^2) *)
(*   stdDev   = sqrt(variance)                                             *)
(*   zScore   = ((n * amount - sum) / n) / stdDev                          *)
(* A zScore is carried as [num, n, varNum, varDen] and compared with a     *)
(* threshold k by squaring: |z| > k iff num^2 * varDen > k^2 * varNum.     *)
(* revenueType values are not names of members of Object.prototype.        *)
(***************************************************************************)
\* groupedByType[type]: the amounts of the records of the type, in data order
RECURSIVE groupAmounts(_, _, _)
groupAmounts(data, type, i) ==
  IF i > Len(data) THEN <<>>
  ELSE IF data[i].revenueType = type
    THEN <<data[i].amount>> \o groupAmounts(data, type, i + 1)
  ELSE groupAmounts(data, type, i + 1)

\* values.reduce((sum, val) => sum + val, 0)
RECURSIVE sumOf(_)
sumOf(values) == IF values = <<>> THEN 0 ELSE Head(values) + sumOf(Tail(values))

varianceDenSample(n) == n - 1

varianceDenNone(n) == 1

\* the divisor of the variance: values.length
varianceDen(n) == n

\* stats[type] = { mean, stdDev }
statsOf(values) ==
  LET n == Len(values)
      sum == sumOf(values)
  IN [n |-> n, sum |-> sum,
      varNum |-> sumOf([i \in 1..n |-> (n * values[i] - sum) * (n * values[i] - sum)]),
      varDen |-> varianceDen(n)]

\* stdDev === 0
stdDevIsZero(st) == st.varNum = 0 /\ st.varDen # 0

\* (record.amount - mean) / stdDev
zScoreOf(amount, st) ==
  [num |-> st.n * amount - st.sum, n |-> st.n,
   varNum |-> st.varNum, varDen |-> st.varDen]

\* Math.abs(zScore) > k
absAbove(z, k) == z.num * z.num * z.varDen > k * k * z.varNum

severityOfInclusive(z) ==
  IF ~absAbove(z, 4) /\ z.num * z.num * z.varDen # 16 * z.varNum
    THEN (IF ~absAbove(z, 3) /\ z.num * z.num * z.varDen # 9 * z.varNum
            THEN "LOW" ELSE "MEDIUM")
    ELSE "HIGH"

\* lines 48-50
severityOf(z) ==
  IF absAbove(z, 4) THEN "HIGH"
  ELSE IF absAbove(z, 3) THEN "MEDIUM"
  ELSE "LOW"

\* lines 53-54
descNL(z) == IF z.num > 0 THEN <<"O","p","v","a","l","l","e","n","d","e"," ","O","m","z","e","t","p","i","e","k">> ELSE <<"O","n","v","e","r","w","a","c","h","t","e"," ","O","m","z","e","t","d","a","l","i","n","g">>  \* 'Opvallende Omzetpiek', 'Onverwachte Omzetdaling'

descEN(z) == IF z.num > 0 THEN <<"R","e","v","e","n","u","e"," ","S","p","i","k","e">> ELSE <<"R","e","v","e","n","u","e"," ","D","r","o","p">>  \* 'Revenue Spike', 'Revenue Drop'

anomalyOfPushedTwice(record, st) ==
  IF stdDevIsZero(st) THEN <<>>
  ELSE LET z == zScoreOf(record.amount, st)
           a == [id |-> record.id, date |-> record.date,
                 revenueType |-> record.revenueType, amount |-> record.amount,
                 zScore |-> z, severity |-> severityOf(z),
                 description |-> descNL(z)]
       IN IF absAbove(z, 2) THEN <<a, a>> ELSE <<>>

\* the second forEach: the anomaly pushed for a record, if any
anomalyOf(record, st) ==
  IF stdDevIsZero(st) THEN <<>>
  ELSE LET z == zScoreOf(record.amount, st)
       IN IF absAbove(z, 2)
            THEN <<[id |-> record.id, date |-> record.date,
                    revenueType |-> record.revenueType, amount |-> record.amount,
                    zScore |-> z, severity |-> severityOf(z),
                    description |-> descNL(z)]>>
            ELSE <<>>

insertByDateBeforeTies(sorted, a) ==
  LET k == Cardinality({i \in 1..Len(sorted) : sorted[i].date > a.date})
  IN SubSeq(sorted, 1, k) \o <<a>> \o SubSeq(sorted, k + 1, Len(sorted))

\* anomalies.sort((a, b) => b.date.getTime() - a.date.getTime()): a stable
\* sort, the insertion of a after the elements that do not sort after it
insertByDate(sorted, a) ==
  LET k == Cardinality({i \in 1..Len(sorted) : sorted[i].date >= a.date})
  IN SubSeq(sorted, 1, k) \o <<a>> \o SubSeq(sorted, k + 1, Len(sorted))

RECURSIVE sortByDateDesc(_, _)
sortByDateDesc(sorted, rest) ==
  IF rest = <<>> THEN sorted
  ELSE sortByDateDesc(insertByDate(sorted, Head(rest)), Tail(rest))

RECURSIVE flatten(_, _)
flatten(parts, i) ==
  IF i > Len(parts) THEN <<>> ELSE parts[i] \o flatten(parts, i + 1)

detectAnomalies(data) ==
  LET types == {data[i].revenueType : i \in 1..Len(data)}
      stats == [t \in types |-> statsOf(groupAmounts(data, t, 1))]
      found == [i \in 1..Len(data) |-> anomalyOf(data[i], stats[data[i].revenueType])]
  IN sortByDateDesc(<<>>, flatten(found, 1))

(***************************************************************************)
(* Cells of a parsed file (Papa.parse / XLSX.utils.sheet_to_json rows)      *)
(***************************************************************************)
\* a text cell, a numeric cell (an integer), a missing cell (undefined)
T(s) == [t |-> "str", v |-> 0, s |-> s]

N(v) == [t |-> "num", v |-> v, s |-> <<>>]

E == [t |-> "empty", v |-> 0, s |-> <<>>]

\* row[idx] with a 0-based idx: undefined beyond the row and for idx = -1
cellAt(row, idx) == IF idx >= 0 /\ idx < Len(row) THEN row[idx + 1] ELSE E

Digits == <<"0","1","2","3","4","5","6","7","8","9">>

DigitVal(c) ==
  IF \E i \in 1..10 : Digits[i] = c
    THEN (CHOOSE i \in 1..10 : Digits[i] = c) - 1
    ELSE -1

IsDigit(c) == DigitVal(c) >= 0

\* String(n) of a non-negative integer
RECURSIVE natToString(_)
natToString(n) ==
  IF n < 10 THEN <<Digits[n + 1]>>
  ELSE natToString(n \div 10) \o <<Digits[(n % 10) + 1]>>

\* String(x)
String(cell) ==
  CASE cell.t = "str" -> cell.s
    [] cell.t = "num" -> IF cell.v < 0 THEN <<"-">> \o natToString(-cell.v)
                         ELSE natToString(cell.v)
    [] OTHER -> <<"u","n","d","e","f","i","n","e","d">>  \* 'undefined'

\* x || '' : the cell itself when truthy, else the empty string
orEmpty(cell) ==
  IF (cell.t = "str" /\ cell.s # <<>>) \/ (cell.t = "num" /\ cell.v # 0)
    THEN cell ELSE T(<<>>)

(***************************************************************************)
(* Amounts: integers in hundredths; NaN is AmtNaN                          *)
(***************************************************************************)
AmtNaN == -999999999

\* the number of leading digits of s
RECURSIVE digitRun(_)
digitRun(s) == IF s # <<>> /\ IsDigit(Head(s)) THEN 1 + digitRun(Tail(s)) ELSE 0

\* the value of a string of digits
RECURSIVE digitsValue(_, _)
digitsValue(acc, s) ==
  IF s = <<>> THEN acc ELSE digitsValue(acc * 10 + DigitVal(Head(s)), Tail(s))

\* parseFloat: leading blanks, a sign, digits, a period, digits; the longest
\* prefix of that shape is read and what follows is ignored. Digits after the
\* second decimal are dropped (the inputs of the model have none).
parseFloat(str) ==
  LET lead == CHOOSE k \in 0..Len(str) :
                /\ \A i \in 1..k : str[i] = " "
                /\ (k = Len(str) \/ str[k + 1] # " ")
      s0   == SubSeq(str, lead + 1, Len(str))
      neg  == s0 # <<>> /\ Head(s0) = "-"
      s1   == IF s0 # <<>> /\ Head(s0) \in {"-", "+"} THEN Tail(s0) ELSE s0
      ni   == digitRun(s1)
      rest == SubSeq(s1, ni + 1, Len(s1))
      frac == IF rest # <<>> /\ Head(rest) = "." THEN Tail(rest) ELSE <<>>
      nf   == digitRun(frac)
      mag  == digitsValue(0, SubSeq(s1, 1, ni)) * 100
              + (IF nf >= 1 THEN DigitVal(frac[1]) * 10 ELSE 0)
              + (IF nf >= 2 THEN DigitVal(frac[2]) ELSE 0)
  IN IF ni = 0 /\ nf = 0 THEN AmtNaN
     ELSE IF neg THEN -mag ELSE mag

\* s.replace(c, d) with a string pattern: the first occurrence only
replaceFirst(s, c, d) ==
  LET i == indexOf(s, <<c>>)
  IN IF i = -1 THEN s ELSE [s EXCEPT ![i + 1] = d]

\* s.replace(/c/g, '')
RECURSIVE removeAll(_, _)
removeAll(s, c) ==
  IF s = <<>> THEN <<>>
  ELSE IF Head(s) = c THEN removeAll(Tail(s), c)
  ELSE <<Head(s)>> \o removeAll(Tail(s), c)

cleanAmountCommaThousands(raw) == removeAll(trim(raw), ",")

\* the amount of a row: App.tsx 209-218 and the isNaN guard of line 226
cleanAmount(raw) ==
  LET clean == trim(raw)
  IN IF includes(clean, <<",">>) /\ ~includes(clean, <<".">>)
       THEN replaceFirst(clean, ",", ".")
     ELSE IF includes(clean, <<".">>) /\ includes(clean, <<",">>)
       THEN IF lastIndexOf(clean, ",") > lastIndexOf(clean, ".")
              THEN replaceFirst(removeAll(clean, "."), ",", ".")
              ELSE removeAll(clean, ",")
     ELSE clean

parseAmount(cell) ==
  LET amount == CASE cell.t = "num" -> cell.v * 100
                  [] cell.t = "str" -> parseFloat(cleanAmount(cell.s))
                  [] OTHER -> 0
  IN IF amount = AmtNaN THEN 0 ELSE amount

(***************************************************************************)
(* Dates: day numbers since 1970-01-01; an Invalid Date is NaNDate         *)
(***************************************************************************)
NaNDate == -999999999

DaysInMonth(y, m) ==
  IF m = 2 THEN (IF (y % 4 = 0 /\ y % 100 # 0) \/ y % 400 = 0 THEN 29 ELSE 28)
  ELSE IF m \in {4, 6, 9, 11} THEN 30 ELSE 31

\* the day number of a civil date (proleptic Gregorian calendar)
DayNumber(y, m, d) ==
  LET yy  == IF m <= 2 THEN y - 1 ELSE y
      era == yy \div 400
      yoe == yy - era * 400
      mp  == IF m > 2 THEN m - 3 ELSE m + 9
      doy == (153 * mp + 2) \div 5 + d - 1
      doe == yoe * 365 + yoe \div 4 - yoe \div 100 + doy
  IN era * 146097 + doe - 719468

\* s.split(/[-/]/)
RECURSIVE splitDate(_, _)
splitDate(cur, s) ==
  IF s = <<>> THEN <<cur>>
  ELSE IF Head(s) \in {"-", "/"} THEN <<cur>> \o splitDate(<<>>, Tail(s))
  ELSE splitDate(Append(cur, Head(s)), Tail(s))

AllDigits(s) == s # <<>> /\ \A i \in 1..Len(s) : IsDigit(s[i])

\* new Date(string). The ISO date form YYYY-MM-DD is read as the standard
\* prescribes. Any other text is read by an implementation-defined fallback:
\* the "strict" engine rejects it, the "legacy" engine also reads
\* month-day-year (M-D-YYYY, M/D/YYYY) and unpadded year-month-day.
parseDate(s, eng) ==
  LET p == splitDate(<<>>, s)
      num(i) == digitsValue(0, p[i])
      ok(y, m, d) == m \in 1..12 /\ d >= 1 /\ d <= DaysInMonth(y, m)
  IN IF Len(p) # 3 \/ \E i \in 1..3 : ~AllDigits(p[i]) THEN NaNDate
     ELSE IF Len(p[1]) = 4 /\ Len(p[2]) = 2 /\ Len(p[3]) = 2
               /\ ~includes(s, <<"/">>)
       THEN IF ok(num(1), num(2), num(3))
              THEN DayNumber(num(1), num(2), num(3)) ELSE NaNDate
     ELSE IF eng = "legacy" /\ Len(p[1]) = 4 /\ ok(num(1), num(2), num(3))
       THEN DayNumber(num(1), num(2), num(3))
     ELSE IF eng = "legacy" /\ Len(p[3]) = 4 /\ Len(p[1]) <= 2
               /\ ok(num(3), num(1), num(2))
       THEN DayNumber(num(3), num(1), num(2))
     ELSE NaNDate

\* the date of a row: App.tsx 200-207
parseRowDate(cell, eng) ==
  CASE cell.t = "num" -> cell.v - 25569
    [] cell.t = "str" ->
         LET direct == parseDate(cell.s, eng)
             parts  == splitDate(<<>>, cell.s)
         IN IF direct # NaNDate THEN direct
            ELSE IF Len(parts) = 3
              THEN parseDate(parts[3] \o <<"-">> \o parts[2] \o <<"-">> \o parts[1], eng)
            ELSE NaNDate
    [] OTHER -> NaNDate

(***************************************************************************)
(* Schema inference and record normalization (App.tsx, processFinancialData)*)
(***************************************************************************)
DateKeys == <<<<"d","a","t","u","m">>, <<"d","a","t","e">>, <<"t","r","a","n","s","a","c","t","i","e","d","a","t","u","m">>>>  \* 'datum', 'date', 'transactiedatum'

AmountKeys == <<<<"b","e","d","r","a","g">>, <<"a","m","o","u","n","t">>, <<"s","a","l","d","o">>>>  \* 'bedrag', 'amount', 'saldo'

IdKeys == <<<<"b","o","e","k","s","t","u","k">>, <<"i","d">>, <<"t","r","a","n","s","a","c","t","i","e">>>>  \* 'boekstuk', 'id', 'transactie'

DescKeys == <<<<"o","m","s","c","h","r","i","j","v","i","n","g">>, <<"r","e","l","a","t","i","e">>, <<"d","e","s","c","r","i","p","t","i","o","n">>, <<"n","a","a","m">>, <<"k","l","a","n","t">>>>  \* 'omschrijving', 'relatie', 'description', 'naam', 'klant'

TypeKeys == <<<<"o","m","z","e","t","s","o","o","r","t">>, <<"i","n","k","o","m","s","t","e","n">>, <<"r","e","v","e","n","u","e">>, <<"k","o","s","t","e","n","s","o","o","r","t">>, <<"c","a","t","e","g","o","r","y">>,  \* 'omzetsoort', 'inkomsten', 'revenue', 'kostensoort', 'category'
              <<"g","r","o","o","t","b","o","e","k">>>>  \* 'grootboek'

\* data[0].map(h => String(h).toLowerCase().trim())
headersOf(row) == [i \in 1..Len(row) |-> trim(toLowerCase(String(row[i])))]

\* headers.findIndex(h => keys.some(k => h.includes(k))), with the last
\* such index instead of the first
roleIndexLast(headers, keys) ==
  LET hits == {i \in 1..Len(headers) :
                 \E k \in 1..Len(keys) : includes(headers[i], keys[k])}
  IN IF hits = {} THEN -1
     ELSE (CHOOSE i \in hits : \A j \in hits : i >= j) - 1

\* headers.findIndex(h => keys.some(k => h.includes(k)))
roleIndex(headers, keys) ==
  LET hits == {i \in 1..Len(headers) :
                 \E k \in 1..Len(keys) : includes(headers[i], keys[k])}
  IN IF hits = {} THEN -1
     ELSE (CHOOSE i \in hits : \A j \in hits : i <= j) - 1

\* the five findIndex results, before the positional fallback
matchRoles(row) ==
  LET h == headersOf(row)
  IN [dateIdx   |-> roleIndex(h, DateKeys),
      amountIdx |-> roleIndex(h, AmountKeys),
      idIdx     |-> roleIndex(h, IdKeys),
      descIdx   |-> roleIndex(h, DescKeys),
      typeIdx   |-> roleIndex(h, TypeKeys)]

inferRolesFallbackOnEither(row) ==
  LET h  == headersOf(row)
      d  == roleIndex(h, DateKeys)
      a  == roleIndex(h, AmountKeys)
      ds == roleIndex(h, DescKeys)
      fb == (d = -1 \/ a = -1) /\ Len(row) >= 3
  IN [dateIdx   |-> IF fb THEN 0 ELSE d,
      amountIdx |-> IF fb THEN 2 ELSE a,
      idIdx     |-> roleIndex(h, IdKeys),
      descIdx   |-> IF fb /\ ds = -1 THEN 1 ELSE ds,
      typeIdx   |-> IF fb THEN 1 ELSE roleIndex(h, TypeKeys)]

\* the column roles after keyword matching and the positional fallback
inferRoles(row) ==
  LET h  == headersOf(row)
      d  == roleIndex(h, DateKeys)
      a  == roleIndex(h, AmountKeys)
      ds == roleIndex(h, DescKeys)
      fb == d = -1 /\ a = -1 /\ Len(row) >= 3
  IN [dateIdx   |-> IF fb THEN 0 ELSE d,
      amountIdx |-> IF fb THEN 2 ELSE a,
      idIdx     |-> roleIndex(h, IdKeys),
      descIdx   |-> IF fb /\ ds = -1 THEN 1 ELSE ds,
      typeIdx   |-> IF fb THEN 1 ELSE roleIndex(h, TypeKeys)]

\* the record literal of App.tsx 220-227; subCategory is not set
NormRecord(id, date, typeText, desc, amount) ==
  [id |-> id, date |-> date,
   revenueType |-> IF typeText = <<>> THEN Unknown ELSE typeText,
   subCategory |-> Absent,
   originalCategory |-> typeText,
   description |-> desc,
   amount |-> amount]

\* the map callback: row idx (0-based, within data.slice(1)) to a record
normalizeRow(row, idx, roles, eng) ==
  NormRecord(
    IF roles.idIdx # -1 THEN String(cellAt(row, roles.idIdx))
                        ELSE <<"r","o","w","-">> \o natToString(idx),  \* 'row-'
    parseRowDate(cellAt(row, roles.dateIdx), eng),
    IF roles.typeIdx # -1 THEN String(orEmpty(cellAt(row, roles.typeIdx))) ELSE <<>>,
    IF roles.descIdx # -1 THEN String(cellAt(row, roles.descIdx)) ELSE <<>>,
    parseAmount(cellAt(row, roles.amountIdx)))

\* the filter callback
keepRecordAll(r) == TRUE

keepRecord(r) == r.date # NaNDate /\ r.amount # 0

\* Array.prototype.filter with keepRecord
RECURSIVE filterRecords(_)
filterRecords(recs) ==
  IF recs = <<>> THEN <<>>
  ELSE IF keepRecord(Head(recs)) THEN <<Head(recs)>> \o filterRecords(Tail(recs))
  ELSE filterRecords(Tail(recs))

\* data.slice(1).map(...).filter(...)
normalize(data, roles, eng) ==
  filterRecords([i \in 1..(Len(data) - 1) |->
                   normalizeRow(data[i + 1], i - 1, roles, eng)])

SchemaAlert(lang) ==
  IF lang = "NL" THEN "Kon datums of bedragen niet herkennen."
  ELSE "Could not recognize dates or amounts."

RulesAlert(lang) ==
  IF lang = "NL" THEN "Regels succesvol bijgewerkt" ELSE "Rules updated successfully"

NoResult == [processedRecords |-> <<>>, unmatchedItems |-> <<>>]

\* What a handler does to the App state: nothing ("return"), an alert only
\* ("alert"), setLookupRules only ("rules"), or setRawData and
\* setUnmatchedItems ("set"); with the alert it raises, the normalized records
\* it classified and the rule list it used.
Outcome(kind, alert, records, cls, rules) ==
  [kind |-> kind, alert |-> alert, records |-> records,
   rawData |-> cls.processedRecords, unmatchedItems |-> cls.unmatchedItems,
   rules |-> rules]

(***************************************************************************)
(* Rule files (App.tsx, processLookupFile)                                 *)
(***************************************************************************)
R(main, sub, term) == [mainCategory |-> main, subCategory |-> sub, searchTerm |-> term]

\* the map callback of line 237
ruleOfRow(row) ==
  R(String(orEmpty(cellAt(row, 0))), String(orEmpty(cellAt(row, 1))),
    String(orEmpty(cellAt(row, 2))))

RECURSIVE filterRulesRequireSub(_)
filterRulesRequireSub(rs) ==
  IF rs = <<>> THEN <<>>
  ELSE IF Head(rs).mainCategory # <<>> /\ Head(rs).subCategory # <<>>
          /\ Head(rs).searchTerm # <<>>
    THEN <<Head(rs)>> \o filterRulesRequireSub(Tail(rs))
  ELSE filterRulesRequireSub(Tail(rs))

RECURSIVE filterRulesMainOnly(_)
filterRulesMainOnly(rs) ==
  IF rs = <<>> THEN <<>>
  ELSE IF Head(rs).mainCategory # <<>>
    THEN <<Head(rs)>> \o filterRulesMainOnly(Tail(rs))
  ELSE filterRulesMainOnly(Tail(rs))

\* Array.prototype.filter with r.mainCategory && r.searchTerm
RECURSIVE filterRules(_)
filterRules(rs) ==
  IF rs = <<>> THEN <<>>
  ELSE IF Head(rs).mainCategory # <<>> /\ Head(rs).searchTerm # <<>>
    THEN <<Head(rs)>> \o filterRules(Tail(rs))
  ELSE filterRules(Tail(rs))

\* newRules of processLookupFile
newRulesOf(data) ==
  filterRules([i \in 1..(Len(data) - 1) |-> ruleOfRow(data[i + 1])])

DEFAULT_LOOKUP_RULES ==
  <<R(<<"T","e","r","u","g","k","e","r","e","n","d","e"," ","i","n","k","o","m","s","t","e","n">>, <<"A","b","o","n","n","e","m","e","n","t","e","n">>, <<"a","b","o","n","n","e","m","e","n","t">>),  \* 'Terugkerende inkomsten', 'Abonnementen', 'abonnement'
    R(<<"T","e","r","u","g","k","e","r","e","n","d","e"," ","i","n","k","o","m","s","t","e","n">>, <<"A","b","o","n","n","e","m","e","n","t","e","n">>, <<"s","u","b","s","c","r","i","p","t","i","o","n">>),  \* 'Terugkerende inkomsten', 'Abonnementen', 'subscription'
    R(<<"T","e","r","u","g","k","e","r","e","n","d","e"," ","i","n","k","o","m","s","t","e","n">>, <<"S","e","r","v","i","c","e","c","o","n","t","r","a","c","t","e","n">>, <<"s","e","r","v","i","c","e","c","o","n","t","r","a","c","t">>),  \* 'Terugkerende inkomsten', 'Servicecontracten', 'servicecontract'
    R(<<"T","e","r","u","g","k","e","r","e","n","d","e"," ","i","n","k","o","m","s","t","e","n">>, <<"S","u","p","p","o","r","t","/","m","a","i","n","t","e","n","a","n","c","e"," ","f","e","e","s">>, <<"m","a","i","n","t","e","n","a","n","c","e">>),  \* 'Terugkerende inkomsten', 'Support/maintenance fees', 'maintenance'
    R(<<"T","e","r","u","g","k","e","r","e","n","d","e"," ","i","n","k","o","m","s","t","e","n">>, <<"S","L","A","-","c","o","n","t","r","a","c","t","e","n">>, <<"s","l","a">>),  \* 'Terugkerende inkomsten', 'SLA-contracten', 'sla'
    R(<<"T","e","r","u","g","k","e","r","e","n","d","e"," ","i","n","k","o","m","s","t","e","n">>, <<"P","e","r","i","o","d","i","e","k","e"," ","l","i","c","e","n","t","i","e","s">>, <<"m","a","a","n","d","e","l","i","j","k","s">>),  \* 'Terugkerende inkomsten', 'Periodieke licenties', 'maandelijks'
    R(<<"E","e","n","m","a","l","i","g","e"," ","i","n","k","o","m","s","t","e","n">>, <<"P","r","o","j","e","c","t","w","e","r","k">>, <<"p","r","o","j","e","c","t">>),  \* 'Eenmalige inkomsten', 'Projectwerk', 'project'
    R(<<"E","e","n","m","a","l","i","g","e"," ","i","n","k","o","m","s","t","e","n">>, <<"I","n","s","t","a","l","l","a","t","i","e","k","o","s","t","e","n">>, <<"i","n","s","t","a","l","l","a","t","i","e">>),  \* 'Eenmalige inkomsten', 'Installatiekosten', 'installatie'
    R(<<"E","e","n","m","a","l","i","g","e"," ","i","n","k","o","m","s","t","e","n">>, <<"I","m","p","l","e","m","e","n","t","a","t","i","e","s">>, <<"i","m","p","l","e","m","e","n","t","a","t","i","e">>),  \* 'Eenmalige inkomsten', 'Implementaties', 'implementatie'
    R(<<"E","e","n","m","a","l","i","g","e"," ","i","n","k","o","m","s","t","e","n">>, <<"T","r","a","i","n","i","n","g">>, <<"t","r","a","i","n","i","n","g">>),  \* 'Eenmalige inkomsten', 'Training', 'training'
    R(<<"E","e","n","m","a","l","i","g","e"," ","i","n","k","o","m","s","t","e","n">>, <<"C","o","n","s","u","l","t","a","n","c","y"," ","p","e","r"," ","o","p","d","r","a","c","h","t">>, <<"a","d","v","i","e","s">>),  \* 'Eenmalige inkomsten', 'Consultancy per opdracht', 'advies'
    R(<<"L","i","c","e","n","t","i","e","-","i","n","k","o","m","s","t","e","n">>, <<"S","o","f","t","w","a","r","e","l","i","c","e","n","t","i","e","s">>, <<"l","i","c","e","n","t","i","e">>),  \* 'Licentie-inkomsten', 'Softwarelicenties', 'licentie'
    R(<<"L","i","c","e","n","t","i","e","-","i","n","k","o","m","s","t","e","n">>, <<"S","o","f","t","w","a","r","e","l","i","c","e","n","t","i","e","s">>, <<"l","i","c","e","n","s","e">>),  \* 'Licentie-inkomsten', 'Softwarelicenties', 'license'
    R(<<"L","i","c","e","n","t","i","e","-","i","n","k","o","m","s","t","e","n">>, <<"U","s","a","g","e","-","b","a","s","e","d"," ","l","i","c","e","n","t","i","e","s">>, <<"u","s","a","g","e">>),  \* 'Licentie-inkomsten', 'Usage-based licenties', 'usage'
    R(<<"L","i","c","e","n","t","i","e","-","i","n","k","o","m","s","t","e","n">>, <<"A","P","I","-","c","a","l","l"," ","l","i","c","e","n","t","i","e","s">>, <<"a","p","i"," ","c","a","l","l">>),  \* 'Licentie-inkomsten', 'API-call licenties', 'api call'
    R(<<"D","i","e","n","s","t","v","e","r","l","e","n","i","n","g">>, <<"C","o","n","s","u","l","t","a","n","c","y"," ","p","e","r"," ","u","u","r">>, <<"c","o","n","s","u","l","t","a","n","c","y"," ","u","r","e","n">>),  \* 'Dienstverlening', 'Consultancy per uur', 'consultancy uren'
    R(<<"D","i","e","n","s","t","v","e","r","l","e","n","i","n","g">>, <<"M","a","a","t","w","e","r","k","o","n","t","w","i","k","k","e","l","i","n","g">>, <<"m","a","a","t","w","e","r","k">>),  \* 'Dienstverlening', 'Maatwerkontwikkeling', 'maatwerk'
    R(<<"D","i","e","n","s","t","v","e","r","l","e","n","i","n","g">>, <<"M","a","a","t","w","e","r","k","o","n","t","w","i","k","k","e","l","i","n","g">>, <<"d","e","v","e","l","o","p","m","e","n","t">>),  \* 'Dienstverlening', 'Maatwerkontwikkeling', 'development'
    R(<<"D","i","e","n","s","t","v","e","r","l","e","n","i","n","g">>, <<"S","u","p","p","o","r","t","-","i","n","-","u","r","e","n">>, <<"s","t","r","i","p","p","e","n","k","a","a","r","t">>),  \* 'Dienstverlening', 'Support-in-uren', 'strippenkaart'
    R(<<"T","r","a","n","s","a","c","t","i","o","n","e","l","e"," ","i","n","k","o","m","s","t","e","n">>, <<"P","e","r"," ","t","r","a","n","s","a","c","t","i","e">>, <<"t","r","a","n","s","a","c","t","i","e">>),  \* 'Transactionele inkomsten', 'Per transactie', 'transactie'
    R(<<"T","r","a","n","s","a","c","t","i","o","n","e","l","e"," ","i","n","k","o","m","s","t","e","n">>, <<"M","a","r","k","e","t","p","l","a","c","e"," ","f","e","e","s">>, <<"m","a","r","k","e","t","p","l","a","c","e">>),  \* 'Transactionele inkomsten', 'Marketplace fees', 'marketplace'
    R(<<"U","s","a","g","e","-","b","a","s","e","d"," ","i","n","k","o","m","s","t","e","n">>, <<"P","e","r"," ","G","B">>, <<"s","t","o","r","a","g","e">>),  \* 'Usage-based inkomsten', 'Per GB', 'storage'
    R(<<"U","s","a","g","e","-","b","a","s","e","d"," ","i","n","k","o","m","s","t","e","n">>, <<"P","e","r"," ","m","i","n","u","u","t">>, <<"b","e","l","m","i","n","u","t","e","n">>),  \* 'Usage-based inkomsten', 'Per minuut', 'belminuten'
    R(<<"P","r","o","d","u","c","t","v","e","r","k","o","o","p">>, <<"H","a","r","d","w","a","r","e">>, <<"h","a","r","d","w","a","r","e">>),  \* 'Productverkoop', 'Hardware', 'hardware'
    R(<<"P","r","o","d","u","c","t","v","e","r","k","o","o","p">>, <<"H","a","r","d","w","a","r","e">>, <<"l","a","p","t","o","p">>),  \* 'Productverkoop', 'Hardware', 'laptop'
    R(<<"P","r","o","d","u","c","t","v","e","r","k","o","o","p">>, <<"A","c","c","e","s","s","o","i","r","e","s">>, <<"a","c","c","e","s","s","o","i","r","e">>),  \* 'Productverkoop', 'Accessoires', 'accessoire'
    R(<<"F","i","n","a","n","c","i","ë","l","e"," ","i","n","k","o","m","s","t","e","n">>, <<"R","e","n","t","e">>, <<"r","e","n","t","e">>),  \* 'Financiële inkomsten', 'Rente', 'rente'
    R(<<"A","d","v","e","r","t","e","n","t","i","e","-","i","n","k","o","m","s","t","e","n">>, <<"D","i","s","p","l","a","y"," ","a","d","s">>, <<"a","d","s">>),  \* 'Advertentie-inkomsten', 'Display ads', 'ads'
    R(<<"A","d","v","e","r","t","e","n","t","i","e","-","i","n","k","o","m","s","t","e","n">>, <<"S","p","o","n","s","o","r","e","d"," ","c","o","n","t","e","n","t">>, <<"s","p","o","n","s","o","r","e","d">>)>>  \* 'Advertentie-inkomsten', 'Sponsored content', 'sponsored'

(***************************************************************************)
(* Demo data (utils.ts, generateDemoData)                                  *)
(***************************************************************************)
\* the generators: type, desc, base, trend in hundredths
Generators ==
  <<[type |-> <<"T","e","r","u","g","k","e","r","e","n","d","e"," ","i","n","k","o","m","s","t","e","n">>, desc |-> <<"S","a","a","S"," ","A","b","o","n","n","e","m","e","n","t"," ","E","n","t","e","r","p","r","i","s","e">>,  \* 'Terugkerende inkomsten', 'SaaS Abonnement Enterprise'
     base |-> 15000, trend |-> 105],
    [type |-> <<"T","e","r","u","g","k","e","r","e","n","d","e"," ","i","n","k","o","m","s","t","e","n">>, desc |-> <<"S","e","r","v","i","c","e","c","o","n","t","r","a","c","t"," ","O","n","d","e","r","h","o","u","d">>,  \* 'Terugkerende inkomsten', 'Servicecontract Onderhoud'
     base |-> 5000, trend |-> 100],
    [type |-> <<"E","e","n","m","a","l","i","g","e"," ","i","n","k","o","m","s","t","e","n">>, desc |-> <<"I","m","p","l","e","m","e","n","t","a","t","i","e"," ","P","r","o","j","e","c","t"," ","X">>,  \* 'Eenmalige inkomsten', 'Implementatie Project X'
     base |-> 12000, trend |-> 100],
    [type |-> <<"L","i","c","e","n","t","i","e","-","i","n","k","o","m","s","t","e","n">>, desc |-> <<"S","o","f","t","w","a","r","e","l","i","c","e","n","t","i","e","s"," ","J","a","a","r","l","i","j","k","s">>,  \* 'Licentie-inkomsten', 'Softwarelicenties Jaarlijks'
     base |-> 25000, trend |-> 102],
    [type |-> <<"D","i","e","n","s","t","v","e","r","l","e","n","i","n","g">>, desc |-> <<"C","o","n","s","u","l","t","a","n","c","y"," ","U","r","e","n">>,  \* 'Dienstverlening', 'Consultancy Uren'
     base |-> 8000, trend |-> 100],
    [type |-> <<"P","r","o","d","u","c","t","v","e","r","k","o","o","p">>, desc |-> <<"H","a","r","d","w","a","r","e"," ","L","e","v","e","r","i","n","g">>,  \* 'Productverkoop', 'Hardware Levering'
     base |-> 4000, trend |-> 100],
    [type |-> <<"T","r","a","n","s","a","c","t","i","o","n","e","l","e"," ","i","n","k","o","m","s","t","e","n">>, desc |-> <<"M","a","r","k","e","t","p","l","a","c","e"," ","F","e","e","s">>,  \* 'Transactionele inkomsten', 'Marketplace Fees'
     base |-> 2000, trend |-> 110],
    [type |-> <<"O","n","b","e","k","e","n","d">>, desc |-> <<"B","i","j","s","c","h","r","i","j","v","i","n","g"," ","X","Y","Z">>,  \* 'Onbekend', 'Bijschrijving XYZ'
     base |-> 500, trend |-> 100]>>

\* The generator covers the months today-24 .. today; the model covers the
\* months today-DemoSpan .. today, the trend exponent running from 0 likewise.
DemoSpan == 1

RECURSIVE pow(_, _)
pow(b, e) == IF e = 0 THEN 1 ELSE b * pow(b, e - 1)

\* date-fns subMonths on a civil date [y, m, d]: the day is clamped to the
\* length of the target month
subMonths(today, i) ==
  LET total == today.y * 12 + (today.m - 1) - i
      y == total \div 12
      m == (total % 12) + 1
      d == IF today.d > DaysInMonth(y, m) THEN DaysInMonth(y, m) ELSE today.d
  IN [y |-> y, m |-> m, d |-> d]

\* Math.round(amount) for month i and generator gen, in hundredths. rnd is
\* the value of Math.random() in tenths. The amount is the fraction num/den
\* of base * trend^k + rnd * base * 0.2, times 3 or 0.5 where injected.
demoAmount(gen, i, monthDate, rnd) ==
  LET k    == DemoSpan - i
      den0 == IF k = 0 THEN 100 ELSE pow(100, k)
      num0 == gen.base * pow(gen.trend, k) * (den0 \div pow(100, k))
              + rnd * gen.base * 2 * (den0 \div 100)
      num1 == IF gen.type = <<"E","e","n","m","a","l","i","g","e"," ","i","n","k","o","m","s","t","e","n">> /\ i % 4 = 0  \* 'Eenmalige inkomsten'
                THEN num0 * 3 ELSE num0
      den1 == IF gen.type = <<"D","i","e","n","s","t","v","e","r","l","e","n","i","n","g">> /\ monthDate.m - 1 \in {6, 7}  \* 'Dienstverlening'
                THEN den0 * 2 ELSE den0
  IN ((2 * num1 + den1) \div (2 * den1)) * 100

\* the record pushed for month i and generator idx (0-based)
demoRecord(i, idx, today, rnd) ==
  LET gen == Generators[idx + 1]
      monthDate == subMonths(today, i)
  IN [id |-> natToString(i) \o <<"-">> \o natToString(idx),
      date |-> DayNumber(monthDate.y, monthDate.m, monthDate.d),
      revenueType |-> gen.type,
      subCategory |-> Absent,
      description |-> gen.desc,
      originalCategory |-> <<"V","e","r","k","o","o","p">>,  \* 'Verkoop'
      amount |-> demoAmount(gen, i, monthDate, rnd)]

\* generateDemoData(): months DemoSpan down to 0, the generators in order
generateDemoData(today, rnd) ==
  [n \in 1..((DemoSpan + 1) * Len(Generators)) |->
     demoRecord(DemoSpan - ((n - 1) \div Len(Generators)),
                (n - 1) % Len(Generators), today, rnd)]

(***************************************************************************)
(* The inputs of the App: files, the clock and Math.random                 *)
(***************************************************************************)
MaxPending == 1

Engines == {"strict", "legacy"}

\* the values of new Date() and of Math.random() (in tenths) of a demo load
Todays == {[y |-> 2024, m |-> 9, d |-> 30]}

RandomLevels == {9}

\* keyword headers; the second row's date is day-month-year text, its amount
\* European text, its category missing
DataKeyword ==
  <<<<T(<<"B","o","e","k","s","t","u","k","n","u","m","m","e","r">>), T(<<"D","a","t","u","m">>), T(<<"B","e","d","r","a","g">>), T(<<"O","m","s","c","h","r","i","j","v","i","n","g">>),  \* 'Boekstuknummer', 'Datum', 'Bedrag', 'Omschrijving'
      T(<<"O","m","z","e","t","s","o","o","r","t">>)>>,  \* 'Omzetsoort'
    <<N(2024001), T(<<"2","0","2","4","-","0","1","-","1","5">>), N(5000), T(<<"M","a","a","n","d","e","l","i","j","k","s"," ","S","a","a","S"," ","A","b","o","n","n","e","m","e","n","t">>),  \* '2024-01-15', 'Maandelijks SaaS Abonnement'
      T(<<"T","e","r","u","g","k","e","r","e","n","d","e"," ","i","n","k","o","m","s","t","e","n">>)>>,  \* 'Terugkerende inkomsten'
    <<N(2024002), T(<<"0","1","-","0","2","-","2","0","2","4">>), T(<<"1",".","2","3","4",",","5","6">>), T(<<"B","i","j","s","c","h","r","i","j","v","i","n","g">>), E>>>>  \* '01-02-2024', '1.234,56', 'Bijschrijving'

\* no keyword header: column 0 = date, 1 = category and description, 2 = amount;
\* one row with an unreadable date, one with amount 0
DataPositional ==
  <<<<T(<<"a">>), T(<<"b">>), T(<<"c">>)>>,
    <<N(45000), T(<<"H","a","r","d","w","a","r","e">>), T(<<"1","2",",","5">>)>>,  \* 'Hardware', '12,5'
    <<T(<<"a","b","c">>), T(<<"x">>), N(7)>>,  \* 'abc'
    <<T(<<"3","1","-","1","2","-","2","0","2","4">>), T(<<"L","i","c","e","n","t","i","e">>), N(0)>>>>  \* '31-12-2024', 'Licentie'

\* a date header and no amount header
DataNoAmount ==
  <<<<T(<<"D","a","t","u","m">>), T(<<"O","m","s","c","h","r","i","j","v","i","n","g">>), T(<<"x">>)>>,  \* 'Datum', 'Omschrijving'
    <<T(<<"2","0","2","4","-","0","3","-","0","1">>), T(<<"P","r","o","j","e","c","t">>), N(10)>>>>  \* '2024-03-01', 'Project'

\* a header row only
DataHeaderOnly == <<<<T(<<"D","a","t","u","m">>), T(<<"B","e","d","r","a","g">>)>>>>  \* 'Datum', 'Bedrag'

\* every row is dropped: an unparseable amount, a missing date
DataAllDropped ==
  <<<<T(<<"D","a","t","e">>), T(<<"A","m","o","u","n","t">>)>>,  \* 'Date', 'Amount'
    <<T(<<"2","0","2","4","-","0","2","-","0","1">>), T(<<"n","/","a">>)>>,  \* '2024-02-01', 'n/a'
    <<E, N(5)>>>>

DataFiles == {DataKeyword, DataPositional, DataNoAmount, DataHeaderOnly,
              DataAllDropped}

\* two valid rows around a row without main category
RulesValid ==
  <<<<T(<<"H","o","o","f","d","s","o","o","r","t">>), T(<<"S","u","b","c","a","t","e","g","o","r","i","e">>), T(<<"Z","o","e","k","t","e","r","m">>)>>,  \* 'Hoofdsoort', 'Subcategorie', 'Zoekterm'
    <<T(<<"L","i","c","e","n","t","i","e","s">>), T(<<"S","W">>), T(<<"l","i","c","e","n","t","i","e">>)>>,  \* 'Licenties', 'SW', 'licentie'
    <<E, T(<<"x">>), T(<<"y">>)>>,
    <<T(<<"O","v","e","r","i","g">>), E, T(<<"S","a","a","S">>)>>>>  \* 'Overig', 'SaaS'

\* no valid row
RulesInvalid ==
  <<<<T(<<"H","o","o","f","d","s","o","o","r","t">>), T(<<"S","u","b","c","a","t","e","g","o","r","i","e">>), T(<<"Z","o","e","k","t","e","r","m">>)>>,  \* 'Hoofdsoort', 'Subcategorie', 'Zoekterm'
    <<T(<<"A">>), T(<<"b">>), E>>,
    <<N(0), T(<<"b">>), T(<<"c">>)>>>>

RuleFiles == {RulesValid, RulesInvalid}

\* TLC evaluates a definition without parameters once. Classified is the
\* table of applyLookupRules over the record sets and rule lists the inputs
\* above can produce; classify(records, rules) is applyLookupRules(records,
\* rules), read from the table where the table has it.
KnownRuleLists ==
  {DEFAULT_LOOKUP_RULES} \cup {newRulesOf(f) : f \in RuleFiles}

ClassifiedOnce ==
  {[records |-> n, rules |-> r, out |-> applyLookupRules(n, r)] :
     n \in {generateDemoData(t, d) : t \in Todays, d \in RandomLevels}
           \cup {normalize(f, inferRoles(f[1]), e) :
                   f \in {g \in DataFiles : Len(g) >= 2}, e \in Engines},
     r \in KnownRuleLists}

Classified ==
  ClassifiedOnce \cup
  {[records |-> m.out.processedRecords, rules |-> r,
    out |-> applyLookupRules(m.out.processedRecords, r)] :
     m \in ClassifiedOnce, r \in KnownRuleLists}

classify(records, rules) ==
  IF \E m \in Classified : m.records = records /\ m.rules = rules
    THEN (CHOOSE m \in Classified : m.records = records /\ m.rules = rules).out
    ELSE applyLookupRules(records, rules)

(***************************************************************************)
(* The handlers (App.tsx)                                                  *)
(***************************************************************************)
processFinancialDataNoSchemaCheck(data, rules, eng, lang) ==
  IF Len(data) < 2 THEN Outcome("return", "", <<>>, NoResult, rules)
  ELSE LET records == normalize(data, inferRoles(data[1]), eng)
       IN Outcome("set", "", records, classify(records, rules), rules)

processFinancialDataNoClassify(data, rules, eng, lang) ==
  IF Len(data) < 2 THEN Outcome("return", "", <<>>, NoResult, rules)
  ELSE LET roles == inferRoles(data[1])
       IN IF roles.dateIdx = -1 \/ roles.amountIdx = -1
            THEN Outcome("alert", SchemaAlert(lang), <<>>, NoResult, rules)
            ELSE LET records == normalize(data, roles, eng)
                 IN Outcome("set", "", records,
                            [processedRecords |-> records, unmatchedItems |-> <<>>],
                            rules)

\* processFinancialData(data), run with the lookupRules and the language of
\* its closure
processFinancialData(data, rules, eng, lang) ==
  IF Len(data) < 2 THEN Outcome("return", "", <<>>, NoResult, rules)
  ELSE LET roles == inferRoles(data[1])
       IN IF roles.dateIdx = -1 \/ roles.amountIdx = -1
            THEN Outcome("alert", SchemaAlert(lang), <<>>, NoResult, rules)
            ELSE LET records == normalize(data, roles, eng)
                 IN Outcome("set", "", records,
                            classify(records, rules), rules)

\* processLookupFile(data), run with the rawData of its closure; "rules" is
\* the rule list to store, "records" the normalized records behind the
\* closure's rawData
processLookupFile(data, closureRawData, closureNorm, lang) ==
  IF Len(data) < 2 THEN Outcome("return", "", <<>>, NoResult, <<>>)
  ELSE LET newRules == newRulesOf(data)
       IN IF newRules = <<>> THEN Outcome("return", "", <<>>, NoResult, <<>>)
          ELSE IF Len(closureRawData) > 0
            THEN Outcome("set", RulesAlert(lang), closureNorm,
                         classify(closureRawData, newRules), newRules)
          ELSE Outcome("rules", RulesAlert(lang), <<>>, NoResult, newRules)

Init ==
  /\ rawData = <<>>
  /\ unmatchedItems = <<>>
  /\ lookupRules = DEFAULT_LOOKUP_RULES
  /\ pending = {}
  /\ alertMsg = ""
  /\ normData = <<>>
  /\ usedRules = <<>>
  /\ lastUpload = <<>>
  /\ engine \in Engines
  /\ language = "NL"
  /\ fin = <<>> /\ fout = <<>> /\ fpc = "app"
  /\ AiIdle

\* handleFileUpload: a FileReader is started; its onload handler keeps the
\* processFinancialData / processLookupFile of this render, hence the
\* lookupRules, rawData and language of this render
StartUpload(isLookup, data) ==
  /\ Cardinality(pending) < MaxPending
  /\ pending' = pending \cup
       {[isLookup |-> isLookup, data |-> data,
         lookupRules |-> IF isLookup THEN <<>> ELSE lookupRules,
         rawData |-> IF isLookup THEN rawData ELSE <<>>,
         normData |-> IF isLookup THEN normData ELSE <<>>,
         language |-> language]}
  /\ alertMsg' = ""
  /\ UNCHANGED <<rawData, unmatchedItems, lookupRules, normData, usedRules,
                 lastUpload, engine, language, funVars, aiVars, viewVars>>

ApplyKeepsUnmatched(out, isUpload) ==
  /\ alertMsg' = out.alert
  /\ IF out.kind = "set"
       THEN /\ rawData' = out.rawData
            /\ unmatchedItems' = IF out.unmatchedItems = <<>> THEN unmatchedItems
                                  ELSE out.unmatchedItems
            /\ normData' = out.records
            /\ usedRules' = out.rules
            /\ lastUpload' = IF isUpload THEN out.records ELSE lastUpload
       ELSE UNCHANGED <<rawData, unmatchedItems, normData, usedRules, lastUpload>>

\* the state updates of a handler's outcome
Apply(out, isUpload) ==
  /\ alertMsg' = out.alert
  /\ IF out.kind = "set"
       THEN /\ rawData' = out.rawData
            /\ unmatchedItems' = out.unmatchedItems
            /\ normData' = out.records
            /\ usedRules' = out.rules
            /\ lastUpload' = IF isUpload THEN out.records ELSE lastUpload
       ELSE UNCHANGED <<rawData, unmatchedItems, normData, usedRules, lastUpload>>

\* reader.onload of a data file: onLoad(data) -> processFinancialData(data)
DataLoaded(p) ==
  /\ p \in pending /\ ~p.isLookup
  /\ pending' = pending \ {p}
  /\ Apply(processFinancialData(p.data, p.lookupRules, engine, p.language), TRUE)
  /\ UNCHANGED <<lookupRules, engine, language, funVars, aiVars, viewVars>>

\* reader.onload of a rule file: onLoad(data) -> processLookupFile(data)
LookupLoaded(p) ==
  /\ p \in pending /\ p.isLookup
  /\ pending' = pending \ {p}
  /\ LET out == processLookupFile(p.data, p.rawData, p.normData, p.language)
     IN /\ Apply(out, FALSE)
        /\ lookupRules' = IF out.kind \in {"set", "rules"} THEN out.rules
                          ELSE lookupRules
  /\ UNCHANGED <<engine, language, funVars, aiVars, viewVars>>

\* handleLoadDemo
LoadDemo(today, rnd) ==
  /\ LET demo == generateDemoData(today, rnd)
     IN Apply(Outcome("set", "", demo, classify(demo, lookupRules),
                      lookupRules), TRUE)
  /\ UNCHANGED <<lookupRules, pending, engine, language, funVars, aiVars, viewVars>>

\* the language button: setLanguage(language === NL ? EN : NL)
ToggleLanguage ==
  /\ language' = IF language = "NL" THEN "EN" ELSE "NL"
  /\ alertMsg' = ""
  /\ UNCHANGED <<rawData, unmatchedItems, lookupRules, pending, normData,
                 usedRules, lastUpload, engine, funVars, aiVars, viewVars>>

Next ==
  \/ \E d \in DataFiles : StartUpload(FALSE, d)
  \/ \E r \in RuleFiles : StartUpload(TRUE, r)
  \/ \E p \in pending : DataLoaded(p)
  \/ \E p \in pending : LookupLoaded(p)
  \/ \E today \in Todays, rnd \in RandomLevels : LoadDemo(today, rnd)
  \/ ToggleLanguage

Spec == Init /\ [][Next]_vars

(***************************************************************************)
(* The classification specification                                       *)
(***************************************************************************)
MaxRecs == 2

MaxRules == 2

RulePool ==
  {[mainCategory |-> <<"T","e","r","u","g","k","e","r","e","n","d","e"," ","i","n","k","o","m","s","t","e","n">>, subCategory |-> <<"A","b","o","n","n","e","m","e","n","t","e","n">>,  \* 'Terugkerende inkomsten', 'Abonnementen'
    searchTerm |-> <<"a","b","o","n","n","e","m","e","n","t">>],  \* 'abonnement'
   [mainCategory |-> <<"T","e","r","u","g","k","e","r","e","n","d","e"," ","i","n","k","o","m","s","t","e","n">>, subCategory |-> <<"S","L","A","-","c","o","n","t","r","a","c","t","e","n">>,  \* 'Terugkerende inkomsten', 'SLA-contracten'
    searchTerm |-> <<"S","L","A">>],  \* 'SLA'
   [mainCategory |-> <<"P","r","o","d","u","c","t","v","e","r","k","o","o","p">>, subCategory |-> <<"H","a","r","d","w","a","r","e">>,  \* 'Productverkoop', 'Hardware'
    searchTerm |-> <<"t"," ","v">>],  \* 't v'
   [mainCategory |-> <<"O","v","e","r","i","g">>, subCategory |-> <<>>,  \* 'Overig'
    searchTerm |-> <<"i","n","k","o","m","s","t","e","n">>]}  \* 'inkomsten'

ClassifyRecords ==
  {NormRecord(<<"r">>, 0, c, d, 100) :
     c \in {<<>>, <<"V","e","r","k","o","o","p">>}, d \in {<<>>, <<"S","L","A"," ","A","b","o","n","n","e","m","e","n","t">>, <<"B","i","j","s","c","h","r","i","j","v","i","n","g">>}}  \* 'Verkoop', 'SLA Abonnement', 'Bijschrijving'

ClassifyInit ==
  /\ fin \in [records : SeqUpTo(ClassifyRecords, MaxRecs),
              rules : SeqUpTo(RulePool, MaxRules)]
  /\ fout = [first |-> NoResult, second |-> NoResult]
  /\ fpc = "in"
  /\ rawData = <<>> /\ unmatchedItems = <<>> /\ lookupRules = <<>>
  /\ pending = {} /\ alertMsg = "" /\ normData = <<>> /\ usedRules = <<>>
  /\ lastUpload = <<>> /\ engine = "strict" /\ language = "NL"
  /\ AiIdle

\* classify(records, rules)
Classify ==
  /\ fpc = "in"
  /\ fout' = [fout EXCEPT !.first = applyLookupRules(fin.records, fin.rules)]
  /\ fpc' = "out"
  /\ UNCHANGED <<fin, appVars>>

\* classify(classify(records, rules).processedRecords, rules)
Reclassify ==
  /\ fpc = "out"
  /\ fout' = [fout EXCEPT
               !.second = applyLookupRules(fout.first.processedRecords, fin.rules)]
  /\ fpc' = "again"
  /\ UNCHANGED <<fin, appVars>>

ClassifyNext == Classify \/ Reclassify

SpecClassify == ClassifyInit /\ [][ClassifyNext]_vars

(***************************************************************************)
(* The anomaly detection specification                                    *)
(***************************************************************************)
\* the longest run of records of one amount
MaxRun == 17

\* the records that follow the run
MaxSingles == 2

DetectAmounts == {-2, 1, 2}

\* the dates are 1, 2, 2, 1, 1, 2, 2, ...: neighbours in the input have equal,
\* rising and falling dates
DetectRecord(i, type, amount) ==
  [id |-> natToString(i), date |-> 1 + ((i \div 2) % 2), revenueType |-> type,
   subCategory |-> <<>>, originalCategory |-> <<>>, description |-> <<>>,
   amount |-> amount]

\* count records of type A and one amount, then the singles
DetectData(amount, count, singles) ==
  [i \in 1..(count + Len(singles)) |->
     IF i <= count THEN DetectRecord(i, <<"A">>, amount)
     ELSE DetectRecord(i, singles[i - count].type, singles[i - count].amount)]

\* ten records of amount 100 and one of amount 1000, in one category
ScenarioData == DetectData(100, 10, <<[type |-> <<"A">>, amount |-> 1000]>>)

DetectInit ==
  /\ \/ \E a \in DetectAmounts, c \in 1..MaxRun,
           s \in SeqUpTo([type : {<<"A">>, <<"B">>}, amount : DetectAmounts], MaxSingles) :
          fin = DetectData(a, c, s)
     \/ fin = ScenarioData
     \/ fin = <<>>
  /\ fout = <<>>
  /\ fpc = "detect-in"
  /\ rawData = <<>> /\ unmatchedItems = <<>> /\ lookupRules = <<>>
  /\ pending = {} /\ alertMsg = "" /\ normData = <<>> /\ usedRules = <<>>
  /\ lastUpload = <<>> /\ engine = "strict" /\ language \in {"NL", "EN"}
  /\ AiIdle

\* detect(records)
Detect ==
  /\ fpc = "detect-in"
  /\ fout' = detectAnomalies(fin)
  /\ fpc' = "detect-out"
  /\ UNCHANGED <<fin, appVars>>

SpecDetect == DetectInit /\ [][Detect]_vars

(***************************************************************************)
(* The schema inference specification                                     *)
(***************************************************************************)
\* the App state of the function specifications
AppIdle ==
  /\ rawData = <<>> /\ unmatchedItems = <<>> /\ lookupRules = <<>>
  /\ pending = {} /\ alertMsg = "" /\ normData = <<>> /\ usedRules = <<>>
  /\ lastUpload = <<>> /\ language = "NL"
  /\ AiIdle

\* the longest header row
MaxCols == 3

HeaderCells == {T(<<"D","a","t","u","m">>), T(<<" ","B","E","D","R","A","G"," ">>), T(<<"O","m","s","c","h","r","i","j","v","i","n","g">>), T(<<"O","m","z","e","t","s","o","o","r","t">>),  \* 'Datum', ' BEDRAG ', 'Omschrijving', 'Omzetsoort'
                T(<<"T","r","a","n","s","a","c","t","i","e","d","a","t","u","m">>), T(<<"x">>)}  \* 'Transactiedatum'

RolesInit ==
  /\ fin \in SeqUpTo(HeaderCells, MaxCols)
  /\ fout = <<>>
  /\ fpc = "roles-in"
  /\ engine = "strict"
  /\ AppIdle

\* the keyword matching of processFinancialData for the header row fin
MatchRoles ==
  /\ fpc = "roles-in"
  /\ fout' = matchRoles(fin)
  /\ fpc' = "roles-matched"
  /\ UNCHANGED <<fin, appVars>>

\* the column roles of processFinancialData for the header row fin
InferRoles ==
  /\ fpc = "roles-matched"
  /\ fout' = inferRoles(fin)
  /\ fpc' = "roles-out"
  /\ UNCHANGED <<fin, appVars>>

SpecRoles == RolesInit /\ [][MatchRoles \/ InferRoles]_vars

(***************************************************************************)
(* The amount normalization specification                                 *)
(***************************************************************************)
\* the longest amount text
MaxAmountLen == 4

\* the amount cells: every text of up to MaxAmountLen characters, three
\* longer texts, numbers and a missing cell
AmountInit ==
  /\ fin \in {T(s) : s \in SeqUpTo({"1", "5", ",", ".", " ", "x"}, MaxAmountLen)
                            \cup {<<"1",".","2","3","4",",","5","6">>, <<"1",",","2","3","4",".","5","6">>, <<"1","2",",","5">>}}  \* '1.234,56', '1,234.56', '12,5'
             \cup {N(0), N(7), N(-3), E}
  /\ fout = 0
  /\ fpc = "amount-in"
  /\ engine = "strict"
  /\ AppIdle

\* the amount of processFinancialData for the cell fin, in hundredths
ParseAmount ==
  /\ fpc = "amount-in"
  /\ fout' = parseAmount(fin)
  /\ fpc' = "amount-out"
  /\ UNCHANGED <<fin, appVars>>

SpecAmount == AmountInit /\ [][ParseAmount]_vars

(***************************************************************************)
(* The date normalization specification                                   *)
(***************************************************************************)
DayTexts == {<<"0","1">>, <<"1">>, <<"1","3">>, <<"3","1">>}  \* '01', '13', '31'

MonthTexts == {<<"0","2">>, <<"1","2">>}  \* '02', '12'

DateSeparators == {"-", "/"}

\* day-month-year and year-month-day texts, texts of two and of four parts, a
\* text without digits, a serial number and an empty cell
DateInit ==
  /\ fin \in {T(d \o <<x>> \o m \o <<x>> \o <<"2","0","2","4">>) :  \* '2024'
                d \in DayTexts, m \in MonthTexts, x \in DateSeparators}
             \cup {T(<<"2","0","2","4">> \o <<x>> \o m \o <<x>> \o d) :  \* '2024'
                     d \in DayTexts, m \in MonthTexts, x \in DateSeparators}
             \cup {T(<<"1","2","-","2","0","2","4">>), T(<<"0","1","-","0","2","-","0","3","-","2","0","2","4">>), T(<<"a","b","c">>), T(<<>>),  \* '12-2024', '01-02-03-2024', 'abc'
                   N(45000), E}
  /\ fout = NaNDate
  /\ fpc = "date-in"
  /\ engine \in Engines
  /\ AppIdle

\* the date of processFinancialData for the cell fin, as a day number
ParseDate ==
  /\ fpc = "date-in"
  /\ fout' = parseRowDate(fin, engine)
  /\ fpc' = "date-out"
  /\ UNCHANGED <<fin, appVars>>

SpecDate == DateInit /\ [][ParseDate]_vars

(***************************************************************************)
(* The insight service (geminiService.ts)                                  *)
(***************************************************************************)
\* the fallback of the guard clause
keyMissing(lang) ==
  IF lang = "NL"
    THEN <<"A","I","-","s","l","e","u","t","e","l"," ","o","n","t","b","r","e","e","k","t","."," ","D","i","t"," ","i","s"," ","e","e","n"," ","g","e","s","i","m","u","l","e","e","r","d"," ","i","n","z","i","c","h","t"," ","g","e","b","a","s","e","e","r","d"," ","o","p"," ","d","e"," ","o","m","z","e","t","t","r","e","n","d",".">>  \* 'AI-sleutel ontbreekt. Dit is een gesimuleerd inzicht gebaseerd op de omzettrend.'
    ELSE <<"A","I"," ","k","e","y"," ","m","i","s","s","i","n","g","."," ","T","h","i","s"," ","i","s"," ","a"," ","s","i","m","u","l","a","t","e","d"," ","i","n","s","i","g","h","t"," ","b","a","s","e","d"," ","o","n"," ","t","h","e"," ","r","e","v","e","n","u","e"," ","t","r","e","n","d",".">>  \* 'AI key missing. This is a simulated insight based on the revenue trend.'

\* the text used for a response without text
noAnalysis(lang) ==
  IF lang = "NL" THEN <<"G","e","e","n"," ","a","n","a","l","y","s","e"," ","b","e","s","c","h","i","k","b","a","a","r",".">> ELSE <<"N","o"," ","a","n","a","l","y","s","i","s"," ","a","v","a","i","l","a","b","l","e",".">>  \* 'Geen analyse beschikbaar.', 'No analysis available.'

\* errorMessage, as first assigned
unableMessage(lang) ==
  IF lang = "NL" THEN <<"K","a","n"," ","g","e","e","n"," ","A","I","-","a","n","a","l","y","s","e"," ","g","e","n","e","r","e","r","e","n",".">>  \* 'Kan geen AI-analyse genereren.'
  ELSE <<"U","n","a","b","l","e"," ","t","o"," ","g","e","n","e","r","a","t","e"," ","A","I"," ","a","n","a","l","y","s","i","s",".">>  \* 'Unable to generate AI analysis.'

\* errorMessage, as assigned for an exceeded quota
quotaMessage(lang) ==
  IF lang = "NL" THEN <<"A","I","-","l","i","m","i","e","t"," ","b","e","r","e","i","k","t","."," ","P","r","o","b","e","e","r"," ","h","e","t"," ","l","a","t","e","r"," ","o","p","n","i","e","u","w",".">>  \* 'AI-limiet bereikt. Probeer het later opnieuw.'
  ELSE <<"A","I"," ","q","u","o","t","a"," ","e","x","c","e","e","d","e","d","."," ","P","l","e","a","s","e"," ","t","r","y"," ","a","g","a","i","n"," ","l","a","t","e","r",".">>  \* 'AI quota exceeded. Please try again later.'

\* a value the service call rejects with: an object with the enumerable
\* properties status, code and detail (0 and <<>>: no such property), which
\* may hold a reference to itself
ErrorObject(status, code, detail, cyclic) ==
  [t |-> "object", status |-> status, code |-> code, detail |-> detail,
   cyclic |-> cyclic]

\* the rejection value undefined
ErrorUndefined ==
  [t |-> "undefined", status |-> 0, code |-> 0, detail |-> <<>>, cyclic |-> FALSE]

\* generateContent resolves with a response whose text is text
\* (Absent: a response without text)
Resolved(text) == [kind |-> "resolved", text |-> text, error |-> ErrorUndefined]

\* generateContent rejects with error
Rejected(error) == [kind |-> "rejected", text |-> Absent, error |-> error]

RECURSIVE joinComma(_)
joinComma(parts) ==
  IF parts = <<>> THEN <<>>
  ELSE IF Len(parts) = 1 THEN Head(parts)
  ELSE Head(parts) \o <<",">> \o joinComma(Tail(parts))

\* JSON.stringify(error): a string, the value undefined (for undefined), or
\* a TypeError (for an object that refers to itself)
JSONstringify(error) ==
  IF error.t = "undefined" THEN [kind |-> "undefined", s |-> <<>>]
  ELSE IF error.cyclic THEN [kind |-> "throws", s |-> <<>>]
  ELSE LET property(name, value) == <<"\"">> \o name \o <<"\"", ":">> \o value
           status == IF error.status = 0 THEN <<>>
                     ELSE <<property(<<"s","t","a","t","u","s">>, natToString(error.status))>>  \* 'status'
           code == IF error.code = 0 THEN <<>>
                   ELSE <<property(<<"c","o","d","e">>, natToString(error.code))>>  \* 'code'
           detail == IF error.detail = <<>> THEN <<>>
                     ELSE <<property(<<"d","e","t","a","i","l">>,  \* 'detail'
                                     <<"\"">> \o error.detail \o <<"\"">>)>>
       IN [kind |-> "string",
           s |-> <<"{">> \o joinComma(status \o code \o detail) \o <<"}">>]

\* error?.status === 429 || error?.code === 429 ||
\* JSON.stringify(error).includes('429'): "yes", "no", or "throws" when the
\* last operand is evaluated and throws (.includes of undefined as well)
quotaTest(error) ==
  IF error.t = "object" /\ (error.status = 429 \/ error.code = 429) THEN "yes"
  ELSE LET json == JSONstringify(error)
       IN IF json.kind # "string" THEN "throws"
          ELSE IF includes(json.s, <<"4","2","9">>) THEN "yes" ELSE "no"  \* '429'

\* what the promise of generateFinancialInsight settles with
Returned(revenueType, insight, called) ==
  [kind |-> "returned", called |-> called,
   value |-> [revenueType |-> revenueType, insight |-> insight]]

Thrown(revenueType) ==
  [kind |-> "thrown", called |-> TRUE,
   value |-> [revenueType |-> revenueType, insight |-> <<>>]]

\* generateFinancialInsight(revenueType, records, lang) of a build with the
\* key `key`, when the service call (if made) settles with outcome; the
\* records only shape the prompt
generateFinancialInsight(revenueType, lang, key, outcome) ==
  IF key = <<>> THEN Returned(revenueType, keyMissing(lang), FALSE)
  ELSE IF outcome.kind = "resolved"
    THEN LET text == IF outcome.text = Absent \/ outcome.text = <<>>
                       THEN noAnalysis(lang) ELSE outcome.text
         IN Returned(revenueType, trim(text), TRUE)
  ELSE LET quota == quotaTest(outcome.error)
       IN IF quota = "throws" THEN Thrown(revenueType)
          ELSE Returned(revenueType,
                        IF quota = "yes" THEN quotaMessage(lang)
                        ELSE unableMessage(lang), TRUE)

\* the texts and errors the service is tried with
ServiceOutcomes ==
  {Resolved(t) : t \in {<<"O","m","z","e","t"," ","g","r","o","e","i","t",".">>, <<" ","O","m","z","e","t"," ","d","a","a","l","t","."," ">>, <<>>, Absent}}  \* 'Omzet groeit.', ' Omzet daalt. '
  \cup {Rejected(ErrorObject(st, c, d, cy)) :
           st \in {0, 429, 500}, c \in {0, 429},
           d \in {<<>>, <<"i","d"," ","1","4","2","9","0">>}, cy \in BOOLEAN}  \* 'id 14290'
  \cup {Rejected(ErrorUndefined)}

GenerateInit ==
  /\ fin \in [revenueType : {<<"P","r","o","d","u","c","t","v","e","r","k","o","o","p">>}, lang : {"NL", "EN"},  \* 'Productverkoop'
              key : {<<>>, <<"k","e","y">>}, outcome : ServiceOutcomes]  \* 'key'
  /\ fout = <<>>
  /\ fpc = "insight-in"
  /\ engine = "strict"
  /\ AppIdle

\* one call of generateFinancialInsight
Generate ==
  /\ fpc = "insight-in"
  /\ fout' = generateFinancialInsight(fin.revenueType, fin.lang, fin.key, fin.outcome)
  /\ fpc' = "insight-out"
  /\ UNCHANGED <<fin, appVars>>

SpecGenerate == GenerateInit /\ [][Generate]_vars

(***************************************************************************)
(* The insight runs (runAIAnalysis)                                        *)
(***************************************************************************)
\* typesToAnalyze.slice(0, 10)
FanOutLimit == 10

\* the model stores no record set that would open more service requests
MaxInFlight == 11

\* nor one that would start a run while this many are open
MaxRuns == 2

\* Array.from(new Set(rawData.map(r => r.revenueType))).filter(t => t !==
\* 'Onbekend'): the first occurrences, in the order of the records
allTypes(data) ==
  LET first(i) == /\ \A j \in 1..(i - 1) : data[j].revenueType # data[i].revenueType
                  /\ data[i].revenueType # Unknown
      firsts == SelectSeq([i \in DOMAIN data |-> i], first)
  IN [k \in DOMAIN firsts |-> data[firsts[k]].revenueType]

limitedTypes(data, selected) ==
  LET typesToAnalyze == IF Len(selected) > 0 THEN selected ELSE allTypes(data)
  IN SubSeq(typesToAnalyze, 1,
            IF Len(typesToAnalyze) < FanOutLimit THEN Len(typesToAnalyze)
            ELSE FanOutLimit)

\* the entries of a sequence
Range(s) == {s[i] : i \in DOMAIN s}

\* { ...prev, ...newInsights }
Merge(prev, newInsights) ==
  [t \in DOMAIN prev \cup DOMAIN newInsights |->
     IF t \in DOMAIN newInsights THEN newInsights[t] ELSE prev[t]]

\* the number of generateContent calls not yet settled
InFlight ==
  Cardinality({c \in (DOMAIN runs) \X (UNION {runs[i].waiting : i \in DOMAIN runs}) :
                 c[2] \in runs[c[1]].waiting})

\* the effect on rawData.length: runAIAnalysis of the render that stored data.
\* Without key every request returns in the microtasks of this task and the
\* run ends in it; with a key one generateContent call per type is open
StartRun(data) ==
  LET types == limitedTypes(data, selectedRevenueTypes)
      newInsights ==
        [t \in Range(types) |->
           generateFinancialInsight(t, language, <<>>, Resolved(Absent)).value]
  IN IF API_KEY = <<>> \/ types = <<>>
       THEN /\ aiInsights' = Merge(aiInsights, newInsights)
            /\ isLoadingAI' = FALSE
            /\ UNCHANGED runs
       ELSE /\ InFlight + Len(types) <= MaxInFlight
            /\ Len(runs) < MaxRuns
            /\ runs' = Append(runs, [types |-> types, waiting |-> Range(types),
                                     newInsights |-> <<>>, rejected |-> FALSE,
                                     language |-> language])
            /\ isLoadingAI' = TRUE
            /\ UNCHANGED aiInsights

\* setRawData(data) of a handler, and the effect that follows the render
SetRawData(data) ==
  /\ rawData' = data
  /\ IF Len(data) # Len(rawData) /\ Len(data) > 0
       THEN StartRun(data)
       ELSE UNCHANGED <<aiInsights, isLoadingAI, runs>>
  /\ UNCHANGED <<unmatchedItems, lookupRules, pending, alertMsg, normData,
                 usedRules, lastUpload, engine, language, funVars,
                 selectedRevenueTypes, API_KEY, service, viewVars>>

\* toggleRevenueType(type), type one of uniqueRevenueTypes
ToggleRevenueType(type) ==
  /\ \E i \in DOMAIN rawData : rawData[i].revenueType = type
  /\ selectedRevenueTypes' =
       IF type \in Range(selectedRevenueTypes)
         THEN SelectSeq(selectedRevenueTypes, LAMBDA t : t # type)
         ELSE Append(selectedRevenueTypes, type)
  /\ UNCHANGED <<rawData, unmatchedItems, lookupRules, pending, alertMsg,
                 normData, usedRules, lastUpload, engine, language, funVars,
                 aiInsights, isLoadingAI, runs, API_KEY, service, viewVars>>

\* the generateContent call of run i for type settles: the map callback
\* stores the insight or throws; the run ends with the last of its calls,
\* and stores its insights unless a callback has thrown
Respond(i, type) ==
  /\ i \in DOMAIN runs
  /\ type \in runs[i].waiting
  /\ LET run == runs[i]
         result == generateFinancialInsight(type, run.language, API_KEY, service[type])
         newInsights == IF result.kind = "returned"
                          THEN Merge(run.newInsights, [t \in {type} |-> result.value])
                          ELSE run.newInsights
         rejected == run.rejected \/ result.kind = "thrown"
         waiting == run.waiting \ {type}
     IN IF waiting = {}
          THEN /\ runs' = SubSeq(runs, 1, i - 1) \o SubSeq(runs, i + 1, Len(runs))
               /\ IF rejected THEN UNCHANGED <<aiInsights, isLoadingAI>>
                  ELSE /\ aiInsights' = Merge(aiInsights, newInsights)
                       /\ isLoadingAI' = FALSE
          ELSE /\ runs' = [runs EXCEPT ![i] = [run EXCEPT !.waiting = waiting,
                                                           !.newInsights = newInsights,
                                                           !.rejected = rejected]]
               /\ UNCHANGED <<aiInsights, isLoadingAI>>
  /\ UNCHANGED <<rawData, unmatchedItems, lookupRules, pending, alertMsg,
                 normData, usedRules, lastUpload, engine, language, funVars,
                 selectedRevenueTypes, API_KEY, service, viewVars>>

\* the record sets stored: n categories of one record each, then a record
\* of the sentinel category
InsightData(n) ==
  [i \in 1..(n + 1) |->
     DetectRecord(i, IF i <= n THEN natToString(i) ELSE Unknown, 100)]

InsightTypes == {natToString(i) : i \in 1..11}

\* the service answers every category with a text, but category 1 with a
\* text, a 429 error, another error or the rejection value undefined
ServiceBehaviours ==
  {[t \in InsightTypes |-> IF t = <<"1">> THEN a ELSE Resolved(<<"O","m","z","e","t"," ","g","r","o","e","i","t",".">>)] :  \* 'Omzet groeit.'
     a \in {Resolved(<<"O","m","z","e","t"," ","g","r","o","e","i","t",".">>), Rejected(ErrorObject(429, 0, <<>>, FALSE)),  \* 'Omzet groeit.'
            Rejected(ErrorObject(500, 0, <<>>, FALSE)), Rejected(ErrorUndefined)}}

InsightInit ==
  /\ rawData = <<>> /\ unmatchedItems = <<>> /\ lookupRules = <<>>
  /\ pending = {} /\ alertMsg = "" /\ normData = <<>> /\ usedRules = <<>>
  /\ lastUpload = <<>> /\ engine = "strict" /\ language = "NL"
  /\ fin = <<>> /\ fout = <<>> /\ fpc = "app"
  /\ aiInsights = <<>> /\ isLoadingAI = FALSE /\ selectedRevenueTypes = <<>>
  /\ runs = <<>>
  /\ dateRange = "6M" /\ customStart = <<>> /\ customEnd = <<>>
  /\ anomalies = <<>> /\ seenData = <<>>
  /\ now = [y |-> 2024, m |-> 9, d |-> 30]
  /\ \/ API_KEY = <<>> /\ service = <<>>
     \/ API_KEY = <<"k","e","y">> /\ service \in ServiceBehaviours  \* 'key'

InsightNext ==
  \/ \E n \in {1, 11} : SetRawData(InsightData(n))
  \/ ToggleRevenueType(<<"1">>)
  \/ \E i \in DOMAIN runs, t \in InsightTypes : Respond(i, t)

SpecInsight == InsightInit /\ [][InsightNext]_vars

(***************************************************************************)
(* The filter scope and the anomaly effect (App.tsx 113-147)               *)
(*                                                                         *)
(* Dates are day numbers and the host runs in UTC, so that the start of a  *)
(* month is the first day and its end the last day of the month.           *)
(***************************************************************************)
\* the useMemo value filteredData of the current state
filteredData ==
  LET civil(s) == LET p == splitDate(<<>>, s)
                  IN [y |-> digitsValue(0, p[1]), m |-> digitsValue(0, p[2]),
                      d |-> digitsValue(0, p[3])]
      months == CASE dateRange = "3M" -> 3
                  [] dateRange = "9M" -> 9
                  [] dateRange = "1Y" -> 12
                  [] OTHER -> 6
      start == IF dateRange = "CUSTOM" /\ customStart # <<>>
                 THEN civil(customStart) ELSE subMonths(now, months)
      end == IF dateRange = "CUSTOM" /\ customEnd # <<>>
               THEN civil(customEnd) ELSE now
      startOfMonth == DayNumber(start.y, start.m, 1)
      endOfMonth == DayNumber(end.y, end.m, DaysInMonth(end.y, end.m))
      within(r) == /\ r.date >= startOfMonth /\ r.date <= endOfMonth
                   /\ \/ Len(selectedRevenueTypes) = 0
                      \/ r.revenueType \in Range(selectedRevenueTypes)
  IN IF Len(rawData) = 0 THEN <<>> ELSE SelectSeq(rawData, within)

\* the select of the period: setDateRange(option)
SetDateRange(option) ==
  /\ dateRange' = option
  /\ UNCHANGED <<rawData, unmatchedItems, lookupRules, pending, alertMsg,
                 normData, usedRules, lastUpload, engine, language, funVars,
                 aiVars, customStart, customEnd, anomalies, seenData, now>>

\* the date inputs of the custom period: setCustomStart(value)
SetCustomStart(value) ==
  /\ dateRange = "CUSTOM"
  /\ customStart' = value
  /\ UNCHANGED <<rawData, unmatchedItems, lookupRules, pending, alertMsg,
                 normData, usedRules, lastUpload, engine, language, funVars,
                 aiVars, dateRange, customEnd, anomalies, seenData, now>>

\* setCustomEnd(value)
SetCustomEnd(value) ==
  /\ dateRange = "CUSTOM"
  /\ customEnd' = value
  /\ UNCHANGED <<rawData, unmatchedItems, lookupRules, pending, alertMsg,
                 normData, usedRules, lastUpload, engine, language, funVars,
                 aiVars, dateRange, customStart, anomalies, seenData, now>>

\* the effect on filteredData, which never clears the list
AnomalyEffectKeepsWhenEmpty ==
  /\ filteredData # seenData
  /\ anomalies' = IF Len(filteredData) > 0 THEN detectAnomalies(filteredData)
                  ELSE anomalies
  /\ seenData' = filteredData
  /\ UNCHANGED <<rawData, unmatchedItems, lookupRules, pending, alertMsg,
                 normData, usedRules, lastUpload, engine, language, funVars,
                 aiVars, dateRange, customStart, customEnd, now>>

\* the effect on filteredData: it runs after a render that computed a
\* new filteredData
AnomalyEffect ==
  /\ filteredData # seenData
  /\ anomalies' = IF Len(filteredData) > 0 THEN detectAnomalies(filteredData)
                  ELSE <<>>
  /\ seenData' = filteredData
  /\ UNCHANGED <<rawData, unmatchedItems, lookupRules, pending, alertMsg,
                 normData, usedRules, lastUpload, engine, language, funVars,
                 aiVars, dateRange, customStart, customEnd, now>>

\* the stored records of the scope specification: category A with six
\* records of amount 1 and one of amount 100 in August 2024 and one of amount
\* 100 in January 2024, category B with one record in August 2024
ScopeData ==
  [i \in 1..9 |->
     [DetectRecord(i, IF i <= 8 THEN <<"A">> ELSE <<"B">>, IF i \in {7, 8} THEN 100 ELSE 1)
        EXCEPT !.date = IF i = 8 THEN DayNumber(2024, 1, 5)
                        ELSE DayNumber(2024, 8, 10 + i)]]

ScopeInit ==
  /\ fin = <<>> /\ fout = <<>> /\ fpc = "app"
  /\ engine = "strict"
  /\ AppIdle

ScopeNext ==
  \/ \E n \in {0, 7, 9} : SetRawData(SubSeq(ScopeData, 1, n))
  \/ \E t \in {<<"A">>, <<"B">>} : ToggleRevenueType(t)
  \/ \E o \in {"3M", "6M", "9M", "1Y", "CUSTOM"} : SetDateRange(o)
  \/ \E v \in {<<>>, <<"2","0","2","4","-","0","8","-","1","5">>} : SetCustomStart(v)  \* '2024-08-15'
  \/ \E v \in {<<>>, <<"2","0","2","4","-","0","8","-","2","0">>} : SetCustomEnd(v)  \* '2024-08-20'
  \/ AnomalyEffect

\* a render that computed a new filteredData schedules the effect: of the
\* steps of ScopeNext only AnomalyEffect sets seenData
EffectScheduled == filteredData # seenData /\ seenData' = filteredData

\* React runs a scheduled effect: weak fairness of AnomalyEffect
SpecScopeFair == ScopeInit /\ [][ScopeNext]_vars /\ WF_seenData(EffectScheduled)

(***************************************************************************)
(* Insights and anomalies after a re-classification (App.tsx 140-171,      *)
(* 243-249, 738)                                                           *)
(***************************************************************************)
\* processedRecords of a re-classification that moves the records of one
\* category to another: as many records as before
Reclassified(data, from, to) ==
  [i \in DOMAIN data |->
     IF data[i].revenueType = from THEN [data[i] EXCEPT !.revenueType = to]
     ELSE data[i]]

FollowInit ==
  /\ fin = <<>> /\ fout = <<>> /\ fpc = "app"
  /\ engine = "strict"
  /\ rawData = <<>> /\ unmatchedItems = <<>> /\ lookupRules = <<>>
  /\ pending = {} /\ alertMsg = "" /\ normData = <<>> /\ usedRules = <<>>
  /\ lastUpload = <<>> /\ language = "NL"
  /\ aiInsights = <<>> /\ isLoadingAI = FALSE /\ selectedRevenueTypes = <<>>
  /\ runs = <<>>
  /\ dateRange = "6M" /\ customStart = <<>> /\ customEnd = <<>>
  /\ anomalies = <<>> /\ seenData = <<>>
  /\ now = [y |-> 2024, m |-> 9, d |-> 30]
  /\ \/ API_KEY = <<>> /\ service = <<>>
     \/ /\ API_KEY = <<"k","e","y">>  \* 'key'
        /\ service = [t \in {<<"A">>, <<"B">>, <<"C">>} |-> Resolved(<<"O","m","z","e","t"," ","g","r","o","e","i","t",".">>)]  \* 'Omzet groeit.'

\* a generateContent call settles
Settle == \E i \in DOMAIN runs, t \in {<<"A">>, <<"B">>, <<"C">>} : Respond(i, t)

FollowNext ==
  \/ \E n \in {0, 9} : SetRawData(SubSeq(ScopeData, 1, n))
  \/ SetRawData(Reclassified(ScopeData, <<"A">>, <<"C">>))
  \/ Settle
  \/ AnomalyEffect

\* React runs a scheduled effect, and the service settles every call
SpecFollowFair ==
  FollowInit /\ [][FollowNext]_vars
  /\ WF_seenData(EffectScheduled) /\ WF_runs(Settle)

\* the haystack of a record, as the specification words it
Haystack(r) == toLowerCase(r.description \o <<" ">> \o r.originalCategory)

\* the positions of the rules whose lowercased term occurs in the haystack of r
Matching(r, rules) ==
  {k \in 1..Len(rules) : includes(Haystack(r), toLowerCase(rules[k].searchTerm))}

InSeq(x, s) == \E i \in 1..Len(s) : s[i] = x

\* C1: when at least one rule matches a record, the record gets the main and sub
\* category of the matching rule with the smallest list index.
C1_FirstMatchWins ==
  fpc \in {"out", "again"} =>
    \A i \in 1..Len(fin.records) :
      LET M == Matching(fin.records[i], fin.rules)
          o == fout.first.processedRecords[i]
      IN M # {} =>
           \E k \in M :
             /\ \A j \in M : k <= j
             /\ o.revenueType = fin.rules[k].mainCategory
             /\ o.subCategory = fin.rules[k].subCategory

\* C1 witness: two rules of different main category match one record, the later
\* one with the longer term, and the record carries the earlier rule's category.
C1_Witness ==
  /\ fpc = "out"
  /\ \E i \in 1..Len(fin.records) :
       \E j, k \in Matching(fin.records[i], fin.rules) :
         /\ j < k
         /\ Len(fin.rules[k].searchTerm) > Len(fin.rules[j].searchTerm)
         /\ fin.rules[k].mainCategory # fin.rules[j].mainCategory
         /\ fout.first.processedRecords[i].revenueType = fin.rules[j].mainCategory

\* C2 as stated: an unmatched record is kept with the sentinel categories and its
\* description, or its originalCategory when the description is empty, is in
\* unmatchedItems.
C2_UnmatchedAlwaysListed ==
  fpc \in {"out", "again"} =>
    /\ Len(fout.first.processedRecords) = Len(fin.records)
    /\ \A i \in 1..Len(fin.records) :
         LET r == fin.records[i]
             o == fout.first.processedRecords[i]
         IN Matching(r, fin.rules) = {} =>
              /\ o.revenueType = Unknown
              /\ o.subCategory = Unclassified
              /\ InSeq(IF r.description # <<>> THEN r.description
                         ELSE r.originalCategory,
                       fout.first.unmatchedItems)

\* C2 amended: as C2, but the originalCategory is listed only when it is not
\* empty; a record with neither text adds nothing to unmatchedItems.
C2_UnmatchedListedWhenNonEmpty ==
  fpc \in {"out", "again"} =>
    /\ Len(fout.first.processedRecords) = Len(fin.records)
    /\ \A i \in 1..Len(fin.records) :
         LET r == fin.records[i]
             o == fout.first.processedRecords[i]
         IN Matching(r, fin.rules) = {} =>
              /\ o.revenueType = Unknown
              /\ o.subCategory = Unclassified
              /\ r.description # <<>> =>
                    InSeq(r.description, fout.first.unmatchedItems)
              /\ (r.description = <<>> /\ r.originalCategory # <<>>) =>
                    InSeq(r.originalCategory, fout.first.unmatchedItems)
    /\ ~InSeq(<<>>, fout.first.unmatchedItems)

\* C2 witness: one unmatched record listed by its description, one by its
\* originalCategory.
C2_Witness ==
  /\ fpc = "out"
  /\ \E i, j \in 1..Len(fin.records) :
       /\ Matching(fin.records[i], fin.rules) = {}
       /\ Matching(fin.records[j], fin.rules) = {}
       /\ fin.records[i].description # <<>>
       /\ fin.records[j].description = <<>>
       /\ fin.records[j].originalCategory # <<>>
       /\ fout.first.unmatchedItems =
            <<fin.records[i].description, fin.records[j].originalCategory>>

\* C3: with a non-empty rule list, classifying the classified records again
\* changes no revenueType or subCategory and returns the same unmatchedItems.
C3_Idempotent ==
  (fpc = "again" /\ fin.rules # <<>>) =>
    /\ Len(fout.second.processedRecords) = Len(fout.first.processedRecords)
    /\ \A i \in 1..Len(fout.first.processedRecords) :
         /\ fout.second.processedRecords[i].revenueType =
              fout.first.processedRecords[i].revenueType
         /\ fout.second.processedRecords[i].subCategory =
              fout.first.processedRecords[i].subCategory
    /\ fout.second.unmatchedItems = fout.first.unmatchedItems

\* C3 witness: a second pass over a matched and an unmatched record, where the
\* category assigned by the first pass contains the term of an earlier rule.
C3_Witness ==
  /\ fpc = "again"
  /\ fout.first.unmatchedItems # <<>>
  /\ \E i \in 1..Len(fin.records) :
       \E k \in 1..Len(fin.rules) :
         /\ Matching(fin.records[i], fin.rules) # {}
         /\ k \notin Matching(fin.records[i], fin.rules)
         /\ \A j \in Matching(fin.records[i], fin.rules) : k < j
         /\ includes(toLowerCase(fout.first.processedRecords[i].revenueType),
                     toLowerCase(fin.rules[k].searchTerm))

\* C4 (as stated): a rule-file load with at least one valid row that completes
\* while records are stored leaves as stored records the classification of
\* the stored records' normalized records under the new rules, and as
\* unmatched list that classification's unmatched items.
C4_RuleLoadReclassifiesStored ==
  [][(alertMsg' \in {RulesAlert("NL"), RulesAlert("EN")} /\ rawData # <<>>)
       => /\ rawData' = applyLookupRules(normData, lookupRules').processedRecords
          /\ unmatchedItems' = applyLookupRules(normData, lookupRules').unmatchedItems]_vars

\* C5 (as stated): once no load is pending, the stored records are the
\* classification of the most recently stored upload's normalized records
\* under the active rule list, and the unmatched list is that classification's.
C5_QuiescentConsistent ==
  pending = {} =>
    /\ rawData = applyLookupRules(lastUpload, lookupRules).processedRecords
    /\ unmatchedItems = applyLookupRules(lastUpload, lookupRules).unmatchedItems

\* some header cell contains one of the keywords
HasKeyword(row, keys) ==
  \E i \in 1..Len(row), k \in 1..Len(keys) :
    includes(trim(toLowerCase(String(row[i]))), keys[k])

\* the date or the amount role is unresolved after keyword matching and the
\* positional fallback
SchemaUnresolved(data) ==
  LET d == HasKeyword(data[1], DateKeys)
      a == HasKeyword(data[1], AmountKeys)
  IN (~d \/ ~a) /\ ~(~d /\ ~a /\ Len(data[1]) >= 3)

\* C6: when the load of a data file with at least one data row completes and
\* the date or the amount role of its header is unresolved, the failure alert
\* is raised and the stored records and the unmatched list stay as they were.
C6_SchemaFailureStoresNothing ==
  [][\A p \in pending :
       (~p.isLookup /\ pending' = pending \ {p} /\ Len(p.data) >= 2
          /\ SchemaUnresolved(p.data))
         => /\ alertMsg' = SchemaAlert(p.language)
            /\ rawData' = rawData
            /\ unmatchedItems' = unmatchedItems
            /\ lastUpload' = lastUpload]_vars

\* a schema failure was reported, in the language of the render that started
\* the upload, while records were stored
C6_Witness ==
  /\ alertMsg = SchemaAlert("EN")
  /\ language = "NL"
  /\ rawData # <<>>
  /\ pending = {}

\* C7: in every reachable state every stored record has a valid date and an
\* amount other than 0.
C7_StoredRecordsValid ==
  \A i \in 1..Len(rawData) :
    /\ rawData[i].date # NaNDate
    /\ rawData[i].amount # 0
    /\ rawData[i].amount # AmtNaN

\* the positional file was stored: of its three rows (an unreadable date, an
\* amount of 0) only the first is retained
C7_Witness ==
  /\ Len(rawData) = 1
  /\ rawData[1].id = <<"r","o","w","-","0">>  \* 'row-0'
  /\ rawData[1].amount = 1250

\* C8: in every reachable state every stored record has a non-empty
\* revenueType that is the mainCategory of a rule of the list it was
\* classified with, with that rule's subCategory, or the sentinel pair.
C8_StoredTypeFromRulesOrSentinel ==
  /\ Len(normData) = Len(rawData)
  /\ \A i \in 1..Len(rawData) :
       /\ rawData[i].revenueType # <<>>
       /\ \/ \E k \in 1..Len(usedRules) :
               /\ rawData[i].revenueType = usedRules[k].mainCategory
               /\ rawData[i].subCategory = usedRules[k].subCategory
          \/ /\ rawData[i].revenueType = Unknown
             /\ rawData[i].subCategory = Unclassified

\* a stored record whose seeded category was replaced by a rule's category,
\* and one that fell to the sentinel pair
C8_Witness ==
  /\ Len(normData) = Len(rawData)
  /\ \E i \in 1..Len(rawData) :
       /\ normData[i].revenueType # Unknown
       /\ normData[i].revenueType # rawData[i].revenueType
       /\ rawData[i].revenueType # Unknown
  /\ \E i \in 1..Len(rawData) :
       /\ rawData[i].revenueType = Unknown
       /\ rawData[i].subCategory = Unclassified

\* over the records of data that share the revenueType of data[i]: the count
\* n, the sum S and the sum of squares Q of the amounts
GroupN(data, i) ==
  Cardinality({j \in 1..Len(data) : data[j].revenueType = data[i].revenueType})

GroupS(data, i) ==
  sumOf([j \in 1..Len(data) |->
           IF data[j].revenueType = data[i].revenueType THEN data[j].amount ELSE 0])

GroupQ(data, i) ==
  sumOf([j \in 1..Len(data) |->
           IF data[j].revenueType = data[i].revenueType
             THEN data[j].amount * data[j].amount ELSE 0])

\* n^2 times the population variance of the group of data[i]
GroupV(data, i) ==
  GroupN(data, i) * GroupQ(data, i) - GroupS(data, i) * GroupS(data, i)

\* n times the distance of data[i].amount to the population mean
GroupD(data, i) == GroupN(data, i) * data[i].amount - GroupS(data, i)

\* C9: a record is flagged iff the population standard deviation of its
\* group is non-zero and |amount - mean| / stdDev > 2, that is V # 0 and
\* D^2 > 4 * V; every anomaly is the anomaly of one record.
C9_FlaggedIffBeyondTwoSigma ==
  fpc = "detect-out" =>
    /\ \A i \in 1..Len(fin) :
         (\E k \in 1..Len(fout) : fout[k].id = fin[i].id)
           <=> /\ GroupV(fin, i) # 0
               /\ GroupD(fin, i) * GroupD(fin, i) > 4 * GroupV(fin, i)
    /\ \A k \in 1..Len(fout) :
         /\ \E i \in 1..Len(fin) :
              /\ fout[k].id = fin[i].id
              /\ fout[k].amount = fin[i].amount
              /\ fout[k].revenueType = fin[i].revenueType
         /\ \A l \in 1..Len(fout) : fout[k].id = fout[l].id => k = l

\* a record at exactly two standard deviations is not flagged
C9_Witness ==
  /\ fpc = "detect-out"
  /\ \E i \in 1..Len(fin) :
       /\ GroupV(fin, i) # 0
       /\ GroupD(fin, i) * GroupD(fin, i) = 4 * GroupV(fin, i)
       /\ \A k \in 1..Len(fout) : fout[k].id # fin[i].id

\* the square of |zScore| as a fraction
ZSqNum(z) == z.num * z.num * z.varDen

ZSqDen(z) == z.varNum

\* C10: the severity of every anomaly is HIGH iff |zScore| > 4, MEDIUM iff
\* 3 < |zScore| <= 4 and LOW iff 2 < |zScore| <= 3, where zScore is the
\* record's distance to the population mean over the population stdDev.
C10_SeverityByMagnitude ==
  fpc = "detect-out" =>
    \A k \in 1..Len(fout) :
      LET z == fout[k].zScore
          i == CHOOSE j \in 1..Len(fin) : fin[j].id = fout[k].id
      IN /\ z.num = GroupD(fin, i)
         /\ ZSqDen(z) = z.varDen * GroupV(fin, i)
         /\ ZSqDen(z) > 0
         /\ fout[k].severity = "HIGH" <=> ZSqNum(z) > 16 * ZSqDen(z)
         /\ fout[k].severity = "MEDIUM"
              <=> ZSqNum(z) > 9 * ZSqDen(z) /\ ZSqNum(z) <= 16 * ZSqDen(z)
         /\ fout[k].severity = "LOW"
              <=> ZSqNum(z) > 4 * ZSqDen(z) /\ ZSqNum(z) <= 9 * ZSqDen(z)

\* an anomaly at exactly four standard deviations is MEDIUM
C10_Witness ==
  /\ fpc = "detect-out"
  /\ \E k \in 1..Len(fout) :
       /\ ZSqNum(fout[k].zScore) = 16 * ZSqDen(fout[k].zScore)
       /\ fout[k].severity = "MEDIUM"

\* the position in the input of the record of anomaly a
InputIndex(a) == CHOOSE i \in 1..Len(fin) : fin[i].id = a.id

\* C11: the anomalies are in descending order of date, and anomalies of equal
\* date are in the order of their records in the input.
C11_SortedByDateDescStable ==
  fpc = "detect-out" =>
    \A k, l \in 1..Len(fout) :
      k < l =>
        /\ fout[k].date >= fout[l].date
        /\ fout[k].date = fout[l].date => InputIndex(fout[k]) < InputIndex(fout[l])

\* two anomalies of equal date, whose records are neighbours in the input
C11_Witness ==
  /\ fpc = "detect-out"
  /\ \E k, l \in 1..Len(fout) :
       /\ k < l
       /\ fout[k].date = fout[l].date
       /\ InputIndex(fout[l]) = InputIndex(fout[k]) + 1

\* C12 (as stated): every anomaly of positive zScore carries the spike text and
\* every anomaly of negative zScore the drop text, in the active language.
C12_DescriptionBySignAndLanguage ==
  fpc = "detect-out" =>
    \A k \in 1..Len(fout) :
      fout[k].description =
        IF language = "NL" THEN descNL(fout[k].zScore) ELSE descEN(fout[k].zScore)

\* data is k >= 5 records of one amount and, at position j, one record of a
\* larger amount, all of one revenueType
EqualPlusLarger(data, j) ==
  /\ Len(data) >= 6
  /\ j \in 1..Len(data)
  /\ \A i \in 1..Len(data) : data[i].revenueType = data[j].revenueType
  /\ \A i, l \in 1..Len(data) \ {j} : data[i].amount = data[l].amount
  /\ \A i \in 1..Len(data) \ {j} : data[i].amount < data[j].amount

\* C13: for ten records of amount 100 and one of amount 1000 in one category
\* the only anomaly is the 1000 record, MEDIUM or HIGH, with a spike text; for
\* k >= 5 records of one amount and one larger record in one category the only
\* anomaly is the larger record.
C13_OnlyTheLargerRecordFlagged ==
  fpc = "detect-out" =>
    /\ \A j \in 1..Len(fin) :
         EqualPlusLarger(fin, j) =>
           /\ Len(fout) = 1
           /\ fout[1].id = fin[j].id
           /\ fout[1].amount = fin[j].amount
           /\ fout[1].description \in {<<"O","p","v","a","l","l","e","n","d","e"," ","O","m","z","e","t","p","i","e","k">>, <<"R","e","v","e","n","u","e"," ","S","p","i","k","e">>}  \* 'Opvallende Omzetpiek', 'Revenue Spike'
    /\ fin = ScenarioData =>
         /\ Len(fout) = 1
         /\ fout[1].id = fin[11].id
         /\ fout[1].amount = 1000
         /\ fout[1].severity \in {"MEDIUM", "HIGH"}
         /\ fout[1].description \in {<<"O","p","v","a","l","l","e","n","d","e"," ","O","m","z","e","t","p","i","e","k">>, <<"R","e","v","e","n","u","e"," ","S","p","i","k","e">>}  \* 'Opvallende Omzetpiek', 'Revenue Spike'

\* the scenario's anomaly: the 1000 record, at sqrt(10) standard deviations
C13_Witness ==
  /\ fpc = "detect-out"
  /\ fin = ScenarioData
  /\ EqualPlusLarger(fin, 11)
  /\ Len(fout) = 1
  /\ fout[1].amount = 1000
  /\ fout[1].severity = "MEDIUM"

\* the rules of the data rows of a rule file whose main category and search
\* term are not empty, in file order
ValidRuleRows(data) ==
  LET rows == [i \in 1..(Len(data) - 1) |-> ruleOfRow(data[i + 1])]
      ok(r) == r.mainCategory # <<>> /\ r.searchTerm # <<>>
  IN SelectSeq(rows, ok)

ColumnsWith(row, keys) ==
  {i - 1 : i \in {j \in 1..Len(row) :
                    \E k \in 1..Len(keys) :
                      includes(trim(toLowerCase(String(row[j]))), keys[k])}}

\* the first of a set of columns, -1 if there is none
FirstOf(cols) == IF cols = {} THEN -1 ELSE CHOOSE c \in cols : \A d \in cols : c <= d

\* C15: if no header has a date keyword and none an amount keyword and the row
\* has at least 3 columns, date, category and amount are columns 0, 1 and 2 and
\* description is column 1 unless a header has a description keyword;
\* otherwise every role is the first column with one of its keywords, if any.
C15_PositionalFallback ==
  fpc = "roles-out" =>
    LET dates   == ColumnsWith(fin, DateKeys)
        amounts == ColumnsWith(fin, AmountKeys)
        descs   == ColumnsWith(fin, DescKeys)
    IN IF dates = {} /\ amounts = {} /\ Len(fin) >= 3
         THEN /\ fout.dateIdx = 0
              /\ fout.typeIdx = 1
              /\ fout.amountIdx = 2
              /\ fout.descIdx = IF descs = {} THEN 1 ELSE FirstOf(descs)
         ELSE /\ fout.dateIdx = FirstOf(dates)
              /\ fout.amountIdx = FirstOf(amounts)
              /\ fout.descIdx = FirstOf(descs)
              /\ fout.typeIdx = FirstOf(ColumnsWith(fin, TypeKeys))

\* three columns without date and amount keyword, the last with a description
\* keyword: the fallback applies and the description stays at its keyword column
C15_Witness ==
  /\ fpc = "roles-out"
  /\ Len(fin) = 3
  /\ ColumnsWith(fin, DateKeys) = {}
  /\ ColumnsWith(fin, AmountKeys) = {}
  /\ ColumnsWith(fin, DescKeys) = {2}
  /\ fout.dateIdx = 0 /\ fout.typeIdx = 1 /\ fout.amountIdx = 2 /\ fout.descIdx = 2

\* the lowercased, trimmed text of header cell i (0-based) contains a keyword
HeaderHas(i, keys) ==
  \E k \in 1..Len(keys) : includes(trim(toLowerCase(String(fin[i + 1]))), keys[k])

\* idx is the lowest column with a keyword, or -1 and no column has one
LowestWith(idx, keys) ==
  IF idx = -1 THEN \A i \in 0..(Len(fin) - 1) : ~HeaderHas(i, keys)
  ELSE /\ idx \in 0..(Len(fin) - 1)
       /\ HeaderHas(idx, keys)
       /\ \A i \in 0..(idx - 1) : ~HeaderHas(i, keys)

Separators(c) == {i \in 1..Len(c) : c[i] \in {",", "."}}

\* the position of the last separator of a text that has one
LastSeparator(c) == CHOOSE i \in Separators(c) : \A j \in Separators(c) : j <= i

\* a number text: digits and separators only, a digit first, and if there is a
\* separator the last one occurs once and at most two digits follow it
IsNumberText(c) ==
  /\ c # <<>>
  /\ \A i \in 1..Len(c) : IsDigit(c[i]) \/ i \in Separators(c)
  /\ IsDigit(c[1])
  /\ Separators(c) # {} =>
       /\ \A i \in Separators(c) \ {LastSeparator(c)} : c[i] # c[LastSeparator(c)]
       /\ Len(c) - LastSeparator(c) <= 2

\* the value in hundredths of a number text: the last separator is the decimal
\* separator, every other separator groups thousands
NumberTextValue(c) ==
  IF Separators(c) = {} THEN 100 * digitsValue(0, c)
  ELSE LET p    == LastSeparator(c)
           whole == SelectSeq(SubSeq(c, 1, p - 1), IsDigit)
           frac  == SubSeq(c, p + 1, Len(c))
       IN 100 * digitsValue(0, whole)
          + (IF Len(frac) = 0 THEN 0
             ELSE IF Len(frac) = 1 THEN 10 * DigitVal(frac[1])
             ELSE digitsValue(0, frac))

\* C16: a numeric cell is its own amount; a text cell is trimmed and read with
\* its last separator as decimal separator and the other separator stripped;
\* a text that does not start with a number gives 0; "1.234,56" and "1,234.56"
\* give 1234.56 and "12,5" gives 12.5.
C16_AmountNormalization ==
  fpc = "amount-out" =>
    /\ fin.t = "num" => fout = 100 * fin.v
    /\ (fin.t = "str" /\ IsNumberText(trim(fin.s))) => fout = NumberTextValue(trim(fin.s))
    /\ (fin.t = "str" /\ trim(fin.s) = <<>>) => fout = 0
    /\ (fin.t = "str" /\ trim(fin.s) # <<>> /\ trim(fin.s)[1] = "x") => fout = 0
    /\ fin = T(<<"1",".","2","3","4",",","5","6">>) => fout = 123456  \* '1.234,56'
    /\ fin = T(<<"1",",","2","3","4",".","5","6">>) => fout = 123456  \* '1,234.56'
    /\ fin = T(<<"1","2",",","5">>) => fout = 1250  \* '12,5'

\* "1.234,56" was read as 1234.56
C16_Witness ==
  /\ fpc = "amount-out"
  /\ fin = T(<<"1",".","2","3","4",",","5","6">>)  \* '1.234,56'
  /\ IsNumberText(trim(fin.s))
  /\ fout = 123456

\* the parts of a text date
DateParts(c) == splitDate(<<>>, c)

\* a text of three numeric parts that reads as a day-month-year date and as a
\* month-day-year date
IsAmbiguousDate(c) ==
  /\ Len(DateParts(c)) = 3
  /\ \A i \in 1..3 : AllDigits(DateParts(c)[i])
  /\ Len(DateParts(c)[3]) = 4
  /\ digitsValue(0, DateParts(c)[1]) \in 1..12
  /\ digitsValue(0, DateParts(c)[2]) \in 1..12

\* C17 (as stated): a three-part text date that is ambiguous between
\* day-month-year and month-day-year is read as day-month-year; "31-12-2024" is
\* 31 Dec 2024; a text that has not three parts and is no ISO date is invalid.
C17_AmbiguousDateIsDayMonthYear ==
  (fpc = "date-out" /\ fin.t = "str") =>
    /\ IsAmbiguousDate(fin.s) =>
         fout = DayNumber(digitsValue(0, DateParts(fin.s)[3]),
                          digitsValue(0, DateParts(fin.s)[2]),
                          digitsValue(0, DateParts(fin.s)[1]))
    /\ fin.s = <<"3","1","-","1","2","-","2","0","2","4">> => fout = DayNumber(2024, 12, 31)  \* '31-12-2024'
    /\ Len(DateParts(fin.s)) # 3 => fout = NaNDate

\* C18: one runAIAnalysis run issues requests for at most 10 categories, one
\* request per category, and at every moment at most 10 category insight
\* requests are in flight, also when runs are started in quick succession
C18_FanOutBounded ==
  /\ \A i \in DOMAIN runs :
        /\ Len(runs[i].types) <= 10
        /\ Cardinality(Range(runs[i].types)) = Len(runs[i].types)
        /\ runs[i].waiting \subseteq Range(runs[i].types)
  /\ InFlight <= 10

\* the part of C18 about one run
C18_OneRunBounded ==
  \A i \in DOMAIN runs :
    /\ Len(runs[i].types) <= 10
    /\ Cardinality(Range(runs[i].types)) = Len(runs[i].types)
    /\ runs[i].waiting \subseteq Range(runs[i].types)

\* a failed request: no key, or the service call rejects
RequestFails(type) == API_KEY = <<>> \/ service[type].kind = "rejected"

\* C19: within a runAIAnalysis run in which the request of a category fails,
\* the insights of every other requested category are still stored in
\* aiInsights, the run completes and clears the loading flag, and the stored
\* records (hence the anomalies computed from them) are unchanged
C19_InsightFailuresIsolated ==
  [][\A i \in DOMAIN runs, t \in InsightTypes :
       (/\ Respond(i, t)
        /\ runs[i].waiting = {t}
        /\ \E u \in Range(runs[i].types) : RequestFails(u))
       => /\ isLoadingAI' = FALSE
          /\ \A u \in Range(runs[i].types) :
                ~RequestFails(u) =>
                  /\ u \in DOMAIN aiInsights'
                  /\ aiInsights'[u].revenueType = u
                  /\ aiInsights'[u].insight = trim(service[u].text)
          /\ rawData' = rawData
          /\ detectAnomalies(rawData') = detectAnomalies(rawData)]_vars

\* the same for the runs in which every call of generateFinancialInsight
\* returns
C19_IsolatedWhenInsightReturns ==
  [][\A i \in DOMAIN runs, t \in InsightTypes :
       (/\ Respond(i, t)
        /\ runs[i].waiting = {t}
        /\ \E u \in Range(runs[i].types) : RequestFails(u)
        /\ \A u \in Range(runs[i].types) :
              generateFinancialInsight(u, runs[i].language, API_KEY,
                                       service[u]).kind = "returned")
       => /\ isLoadingAI' = FALSE
          /\ \A u \in Range(runs[i].types) :
                ~RequestFails(u) =>
                  /\ u \in DOMAIN aiInsights'
                  /\ aiInsights'[u].revenueType = u
                  /\ aiInsights'[u].insight = trim(service[u].text)
          /\ rawData' = rawData
          /\ detectAnomalies(rawData') = detectAnomalies(rawData)]_vars

\* the three fallback messages of a language
FallbackMessages(lang) == <<keyMissing(lang), quotaMessage(lang), unableMessage(lang)>>

\* C20: generateFinancialInsight never fails to its caller and returns an
\* insight for the requested category: without a key the key-missing message
\* and no service call; on a service error carrying status or code 429 the
\* quota message; on any other service error the generic message; the three
\* messages of one language are pairwise different
C20_NeverFailsAndMessageByCase ==
  fpc = "insight-out" =>
    LET error == fin.outcome.error
        is429 == error.t = "object" /\ (error.status = 429 \/ error.code = 429)
        rejected == fin.key # <<>> /\ fin.outcome.kind = "rejected"
        m == FallbackMessages(fin.lang)
    IN /\ fout.kind = "returned"
       /\ fout.value.revenueType = fin.revenueType
       /\ fin.key = <<>> => fout.value.insight = m[1] /\ ~fout.called
       /\ rejected /\ is429 => fout.value.insight = m[2]
       /\ rejected /\ ~is429 => fout.value.insight = m[3]
       /\ m[1] # m[2] /\ m[1] # m[3] /\ m[2] # m[3]

\* the same for the service errors whose JSON text is a string without 429
C20_HoldsForPlainErrors ==
  fpc = "insight-out" =>
    LET error == fin.outcome.error
        is429 == error.t = "object" /\ (error.status = 429 \/ error.code = 429)
        rejected == fin.key # <<>> /\ fin.outcome.kind = "rejected"
        plain == error.t = "object" /\ ~error.cyclic /\ error.detail = <<>>
        m == FallbackMessages(fin.lang)
    IN (rejected => is429 \/ plain) =>
       /\ fout.kind = "returned"
       /\ fout.value.revenueType = fin.revenueType
       /\ fin.key = <<>> => fout.value.insight = m[1] /\ ~fout.called
       /\ rejected /\ is429 => fout.value.insight = m[2]
       /\ rejected /\ ~is429 => fout.value.insight = m[3]
       /\ m[1] # m[2] /\ m[1] # m[3] /\ m[2] # m[3]

\* output records: one per input record, in input order, equal to it in
\* every field but revenueType and subCategory
SameButCategory(input, output) ==
  /\ Len(output) = Len(input)
  /\ \A i \in 1..Len(input) :
        /\ output[i].id = input[i].id
        /\ output[i].date = input[i].date
        /\ output[i].description = input[i].description
        /\ output[i].originalCategory = input[i].originalCategory
        /\ output[i].amount = input[i].amount
        /\ DOMAIN output[i] = DOMAIN input[i]

\* C22: applyLookupRules returns one output record per input record, in
\* input order, with the id, date, description, originalCategory and amount
\* of the input record; only revenueType and subCategory may differ, and the
\* input records and the input sequence are left as they were
C22_ClassificationFrame ==
  [][/\ Classify =>
          /\ fin' = fin
          /\ SameButCategory(fin.records, fout'.first.processedRecords)
     /\ Reclassify =>
          /\ fin' = fin /\ fout'.first = fout.first
          /\ SameButCategory(fout.first.processedRecords,
                              fout'.second.processedRecords)]_vars

\* two records, the first matched by a rule that changes its category, the
\* second unmatched, both with a description and an original category
C22_Witness ==
  /\ fpc = "out"
  /\ Len(fin.records) = 2
  /\ \A i \in 1..2 : /\ fin.records[i].description # <<>>
                      /\ fin.records[i].originalCategory # <<>>
  /\ fout.first.processedRecords[1].revenueType \notin {Unknown, fin.records[1].revenueType}
  /\ fout.first.processedRecords[2].revenueType = Unknown

\* the positions of the input records that no rule matches and that have a
\* description or, failing that, an original category: the audited records
Audited(records, rules) ==
  {i \in 1..Len(records) :
     /\ Matching(records[i], rules) = {}
     /\ records[i].description # <<>> \/ records[i].originalCategory # <<>>}

\* the string an audited record is listed with
AuditText(r) == IF r.description # <<>> THEN r.description ELSE r.originalCategory

\* the first audited record listed with the string t
FirstAudited(records, rules, t) ==
  CHOOSE i \in Audited(records, rules) :
    /\ AuditText(records[i]) = t
    /\ \A j \in Audited(records, rules) : AuditText(records[j]) = t => i <= j

PeriodStart ==
  IF dateRange = "CUSTOM" /\ customStart = <<"2","0","2","4","-","0","8","-","1","5">> THEN DayNumber(2024, 8, 1)  \* '2024-08-15'
  ELSE CASE dateRange = "3M" -> DayNumber(2024, 6, 1)
         [] dateRange = "9M" -> DayNumber(2023, 12, 1)
         [] dateRange = "1Y" -> DayNumber(2023, 9, 1)
         [] OTHER -> DayNumber(2024, 3, 1)

PeriodEnd ==
  IF dateRange = "CUSTOM" /\ customEnd = <<"2","0","2","4","-","0","8","-","2","0">> THEN DayNumber(2024, 8, 31)  \* '2024-08-20'
  ELSE DayNumber(2024, 9, 30)

\* the positions of the stored records in the filter scope
InScope ==
  {i \in 1..Len(rawData) :
     /\ rawData[i].date \in PeriodStart..PeriodEnd
     /\ selectedRevenueTypes # <<>> =>
          \E k \in 1..Len(selectedRevenueTypes) :
            selectedRevenueTypes[k] = rawData[i].revenueType}

\* the stored records in the filter scope, in their order
ScopeRecords == SelectSeq(rawData, LAMBDA r : \E i \in InScope : rawData[i] = r)

\* C24: whenever the stored records, the period or the category filter
\* change, the anomalies eventually are detectAnomalies of exactly the records
\* in the current scope, and the empty list when no record is in scope
C24_AnomaliesFollowScope ==
  []<>(anomalies = IF InScope = {} THEN <<>> ELSE detectAnomalies(ScopeRecords))

\* the custom period August 2024 and category A selected: the record of
\* amount 100 of August is the one anomaly
C24_Witness ==
  /\ dateRange = "CUSTOM" /\ customStart # <<>> /\ customEnd # <<>>
  /\ selectedRevenueTypes = <<<<"A">>>>
  /\ Len(rawData) = 9
  /\ Len(anomalies) = 1
  /\ anomalies[1].id = rawData[7].id

\* the number of records of the revenueType in data
GroupSize(data, type) == Cardinality({i \in 1..Len(data) : data[i].revenueType = type})

\* zScore^2 <= n - 1, for a zScore carried as a fraction
WithinPopulationBound(z, n) == z.num * z.num * z.varDen <= (n - 1) * z.varNum

C26_LoadingTracksRequests == isLoadingAI <=> InFlight > 0

\* C27: in every reachable state the active rule list is not empty and every
\* rule of it has a non-empty mainCategory and a non-empty searchTerm.
C27_ActiveRulesWellFormed ==
  /\ lookupRules # <<>>
  /\ \A i \in 1..Len(lookupRules) :
       /\ Len(lookupRules[i].mainCategory) > 0
       /\ Len(lookupRules[i].searchTerm) > 0

\* the rules of an accepted file are active, without stored records, and the
\* last handler raised no alert
C27_Witness ==
  /\ Len(lookupRules) = 2
  /\ lookupRules[1].mainCategory = <<"L","i","c","e","n","t","i","e","s">>  \* 'Licenties'
  /\ lookupRules[2].searchTerm = <<"S","a","a","S">>  \* 'SaaS'
  /\ pending = {}
  /\ alertMsg = ""
  /\ rawData = <<>>

\* the positions of the input records an anomaly can come from
SourcesOf(a) ==
  {i \in 1..Len(fin) :
     /\ fin[i].id = a.id /\ fin[i].date = a.date
     /\ fin[i].revenueType = a.revenueType /\ fin[i].amount = a.amount}

\* C28: every anomaly carries the id, date, revenueType and amount of one
\* input record, and no input record yields two anomalies; the anomalies are
\* at most as many as the records, and none for an empty input.
C28_AnomaliesAreInputRecords ==
  fpc = "detect-out" =>
    /\ \A k \in 1..Len(fout) : SourcesOf(fout[k]) # {}
    /\ \A k, l \in 1..Len(fout) : k # l => SourcesOf(fout[k]) \cap SourcesOf(fout[l]) = {}
    /\ Len(fout) <= Len(fin)
    /\ fin = <<>> => fout = <<>>

\* two anomalies of one category and one amount, from two records
C28_Witness ==
  /\ fpc = "detect-out"
  /\ Len(fout) = 2
  /\ fout[1].revenueType = fout[2].revenueType
  /\ fout[1].amount = fout[2].amount
  /\ SourcesOf(fout[1]) # SourcesOf(fout[2])
  /\ Cardinality(SourcesOf(fout[1])) = 1

\* the next stored records are the records of the data set, one by one and
\* in order, and every next unmatched item is the string of one of them
StoredFrom(records) ==
  /\ SameButCategory(records, rawData')
  /\ \A k \in 1..Len(unmatchedItems') :
       \E i \in 1..Len(records) : AuditText(records[i]) = unmatchedItems'[k]

\* C29: a data-file load that passes the schema check and a demo load leave
\* as stored records the records of the file or of the demo set and as
\* unmatched list strings of those records only, and leave the rule list as it
\* was; a data file of fewer than 2 rows changes none of the three.
C29_LoadReplacesWholesale ==
  [][/\ \A p \in pending :
          (~p.isLookup /\ pending' = pending \ {p}) =>
            IF Len(p.data) < 2
              THEN /\ rawData' = rawData
                   /\ unmatchedItems' = unmatchedItems
                   /\ lookupRules' = lookupRules
            ELSE ~SchemaUnresolved(p.data) =>
                   /\ StoredFrom(normalize(p.data, inferRoles(p.data[1]), engine))
                   /\ lookupRules' = lookupRules
     /\ (pending' = pending /\ language' = language) =>
          \A today \in Todays, rnd \in RandomLevels :
            LoadDemo(today, rnd) =>
              /\ StoredFrom(generateDemoData(today, rnd))
              /\ lookupRules' = lookupRules]_vars

\* the positional data file was loaded while loaded rules are active: its one
\* valid row is the stored record set and its text the unmatched list
C29_Witness ==
  /\ pending = {}
  /\ lookupRules # DEFAULT_LOOKUP_RULES
  /\ lastUpload = normalize(DataPositional, inferRoles(DataPositional[1]), engine)
  /\ Len(rawData) = 1
  /\ SameButCategory(lastUpload, rawData)
  /\ unmatchedItems = <<<<"H","a","r","d","w","a","r","e">>>>  \* 'Hardware'

\* every category shown in the anomaly list has an insight
AnomaliesHaveInsight ==
  \A k \in 1..Len(anomalies) : anomalies[k].revenueType \in DOMAIN aiInsights

\* C30 (as stated): whenever the stored records change, by an upload, a demo
\* load or a re-classification, every category the anomaly list shows
\* eventually has an insight in aiInsights.
C30_InsightsFollowData == []<>AnomaliesHaveInsight
====
